---------------------------- MODULE Spec2Model ----------------------------
(***************************************************************************)
(* goflo: the FLO control plane (HELLO / CHALLENGE / ANSWER / ACK), the    *)
(* server's admission semaphore and the two session state machines         *)
(* (internal/server/tcp.go, internal/client/tcp.go), over the byte-level   *)
(* codec of internal/protocol and internal/protocol/packets/v1.            *)
(*                                                                         *)
(* A byte is a number 0..255.  A packet on the wire is the sequence of     *)
(* bytes its Marshal produces.  A digest is idealised: HMAC_SHA256 is a    *)
(* collision-free function of (key, message); each of the 32 positions of  *)
(* a digest holds a tuple, the first one the term <<key, message>>.        *)
(***************************************************************************)
EXTENDS Integers, Sequences, FiniteSets, TLC

(***************************************************************************)
(* Bounds of the model.                                                    *)
(***************************************************************************)
\* connections the server accepts in one run of Spec
NumConns == 2
\* largest ServerOpts.MaxConcurrentTests the model configures
MaxTests == 1
\* distinct values utils.NewNonce can return on the server
NumNonces == 1
\* packets a hand-written (non-ClientTCP) peer writes on one connection
MaxRawSends == 2

(***************************************************************************)
(* Program constants.                                                      *)
(***************************************************************************)
HeaderSize == 6
FloVersion1 == 1

TypeHello == 1
TypeChallenge == 2
TypeAnswer == 3
TypeAck == 4
TypeResult == 5

AuthNone == 0
AuthHMAC == 1

TransportTCP == 1
TransportUDP == 2
TransportSCTP == 3

SecurityNone == 0
SecurityTLS == 1

DirectionBidi == 0
DirectionUpload == 1
DirectionDownload == 2

AckOK == 0
AckInvalidVersion == 1
AckInvalidHello == 2
AckAuthFailed == 3
AckBusy == 4

PktHelloSize == HeaderSize + 16 + 1 + 1 + 1 + 2 + 4 + 8 + 8 + 16
PktChallengeSize == HeaderSize + 16 + 1 + 16
PktAnswerSize == HeaderSize + 16 + 32
PktAckSize == HeaderSize + 16 + 1 + 1
PktResultSize == HeaderSize + 16 + 8 + 8

MinChunkSize == 10
MaxChunkSize == 10 * 1000 * 1000
MinDurationMS == 1000

DEFAULT_CHUNK_SIZE == 1024

\* the magic bytes 'F' 'L' 'O' 0x00
MAGIC == <<70, 76, 79, 0>>

(***************************************************************************)
(* Errors (internal/protocol/errors.go), and the errors the handlers make  *)
(* with fmt.Errorf, named by their message.                                *)
(***************************************************************************)
NoError == "nil"
ErrInvalidMagic == "invalid magic bytes"
ErrInvalidPacketSize == "invalid packet size"
ErrUnsupportedVersion == "unsupported protocol version"
ErrIncorrectType == "incorrect packet type"
ErrAuthFailed == "authentication failed"
ErrInvalidNonce == "invalid nonce"
ErrUnsupportedTransport == "unsupported transport type"
ErrUnsupportedSecurity == "unsupported security type"
ErrUnsupportedDirection == "unsupported direction type"
ErrInvalidFlags == "invalid flags"
ErrInvalidChunkSize == "invalid chunk size"
ErrInvalidDuration == "invalid duration"
\* the error of a read that got fewer bytes than it asked for before the
\* deadline or the end of the stream
ErrRead == "read: i/o timeout or EOF"
ErrWrite == "write: i/o error"

(***************************************************************************)
(* Byte helpers.                                                           *)
(***************************************************************************)
Byte == 0..255

\* data[a:b] of Go: bytes a..b-1, 0-based
Slice(data, a, b) == SubSeq(data, a + 1, b)

\* zero-filled array of n bytes
Zeros(n) == [i \in 1..n |-> 0]

\* binary.LittleEndian.PutUintN: n bytes of v, least significant first
RECURSIVE LEPut(_, _)
LEPut(v, n) == IF n = 0 THEN <<>> ELSE <<v % 256>> \o LEPut(v \div 256, n - 1)

\* binary.LittleEndian.UintN: the value of the bytes, least significant first
RECURSIVE LEGet(_)
LEGet(b) == IF Len(b) = 0 THEN 0 ELSE b[1] + 256 * LEGet(Tail(b))

(***************************************************************************)
(* Header: createHeader and UnmarshalHeader.                               *)
(***************************************************************************)
createHeader(pktType) == [Magic |-> MAGIC, Version |-> FloVersion1, Type |-> pktType]

\* a decode result: the error, and the value when the error is nil
Ok(v) == [err |-> NoError, val |-> v]
Fail(e) == [err |-> e, val |-> <<>>]

UnmarshalHeader(data) ==
    IF Len(data) < HeaderSize THEN Fail(ErrInvalidPacketSize)
    ELSE IF Slice(data, 0, 4) # MAGIC THEN Fail(ErrInvalidMagic)
    ELSE Ok([Magic |-> Slice(data, 0, 4), Version |-> data[5], Type |-> data[6]])

MarshalHeader(h) == h.Magic \o <<h.Version, h.Type>>

(***************************************************************************)
(* HELLO (PktHello): NewHello, Marshal, UnmarshalHello.                    *)
(***************************************************************************)
NewHello(transport, id, security, direction, chunkSize, durationMS, warmupMS, nonce) ==
    [Header |-> createHeader(TypeHello), SessionID |-> id, Transport |-> transport,
     Security |-> security, Direction |-> direction, Flags |-> 0,
     ChunkSize |-> chunkSize, DurationMS |-> durationMS, WarmupMS |-> warmupMS,
     NonceClient |-> nonce]

MarshalHello(p) ==
    IF p.Header.Magic # MAGIC THEN Fail(ErrInvalidMagic)
    ELSE Ok(p.Header.Magic \o <<p.Header.Version, p.Header.Type>> \o p.SessionID
            \o <<p.Transport, p.Security, p.Direction>>
            \o LEPut(p.Flags, 2) \o LEPut(p.ChunkSize, 4)
            \o LEPut(p.DurationMS, 8) \o LEPut(p.WarmupMS, 8) \o p.NonceClient)

\* Wrong variant of UnmarshalHello: the limits of the chunk size are refused.
UnmarshalHelloExclusive(data) ==
    IF Len(data) # PktHelloSize THEN Fail(ErrInvalidPacketSize)
    ELSE LET h == UnmarshalHeader(Slice(data, 0, HeaderSize)) IN
    IF h.err # NoError THEN Fail(h.err)
    ELSE IF h.val.Type # TypeHello THEN Fail(ErrIncorrectType)
    ELSE IF data[23] \notin {TransportTCP, TransportUDP, TransportSCTP}
         THEN Fail(ErrUnsupportedTransport)
    ELSE IF data[24] \notin {SecurityNone, SecurityTLS} THEN Fail(ErrUnsupportedSecurity)
    ELSE IF data[25] \notin {DirectionBidi, DirectionUpload, DirectionDownload}
         THEN Fail(ErrUnsupportedDirection)
    ELSE IF LEGet(Slice(data, 25, 27)) # 0 THEN Fail(ErrInvalidFlags)
    ELSE IF LEGet(Slice(data, 27, 31)) <= MinChunkSize
            \/ LEGet(Slice(data, 27, 31)) >= MaxChunkSize
         THEN Fail(ErrInvalidChunkSize)
    ELSE IF LEGet(Slice(data, 31, 39)) < MinDurationMS THEN Fail(ErrInvalidDuration)
    ELSE IF \A i \in 48..63 : data[i] = 0 THEN Fail(ErrInvalidNonce)
    ELSE Ok([Header |-> h.val, SessionID |-> Slice(data, 6, 22),
             Transport |-> data[23], Security |-> data[24], Direction |-> data[25],
             Flags |-> LEGet(Slice(data, 25, 27)),
             ChunkSize |-> LEGet(Slice(data, 27, 31)),
             DurationMS |-> LEGet(Slice(data, 31, 39)),
             WarmupMS |-> LEGet(Slice(data, 39, 47)),
             NonceClient |-> Slice(data, 47, 63)])

UnmarshalHello(data) ==
    IF Len(data) # PktHelloSize THEN Fail(ErrInvalidPacketSize)
    ELSE LET h == UnmarshalHeader(Slice(data, 0, HeaderSize)) IN
    IF h.err # NoError THEN Fail(h.err)
    ELSE IF h.val.Type # TypeHello THEN Fail(ErrIncorrectType)
    ELSE IF data[23] \notin {TransportTCP, TransportUDP, TransportSCTP}
         THEN Fail(ErrUnsupportedTransport)
    ELSE IF data[24] \notin {SecurityNone, SecurityTLS} THEN Fail(ErrUnsupportedSecurity)
    ELSE IF data[25] \notin {DirectionBidi, DirectionUpload, DirectionDownload}
         THEN Fail(ErrUnsupportedDirection)
    ELSE IF LEGet(Slice(data, 25, 27)) # 0 THEN Fail(ErrInvalidFlags)
    ELSE IF LEGet(Slice(data, 27, 31)) < MinChunkSize
            \/ LEGet(Slice(data, 27, 31)) > MaxChunkSize
         THEN Fail(ErrInvalidChunkSize)
    ELSE IF LEGet(Slice(data, 31, 39)) < MinDurationMS THEN Fail(ErrInvalidDuration)
    ELSE IF \A i \in 48..63 : data[i] = 0 THEN Fail(ErrInvalidNonce)
    ELSE Ok([Header |-> h.val, SessionID |-> Slice(data, 6, 22),
             Transport |-> data[23], Security |-> data[24], Direction |-> data[25],
             Flags |-> LEGet(Slice(data, 25, 27)),
             ChunkSize |-> LEGet(Slice(data, 27, 31)),
             DurationMS |-> LEGet(Slice(data, 31, 39)),
             WarmupMS |-> LEGet(Slice(data, 39, 47)),
             NonceClient |-> Slice(data, 47, 63)])

(***************************************************************************)
(* CHALLENGE (PktChallenge).                                               *)
(***************************************************************************)
NewChallenge(sessionID, authMethod, nonce) ==
    [Header |-> createHeader(TypeChallenge), SessionID |-> sessionID,
     AuthMethod |-> authMethod, NonceServer |-> nonce]

MarshalChallenge(p) ==
    IF p.Header.Magic # MAGIC THEN Fail(ErrInvalidMagic)
    ELSE Ok(p.Header.Magic \o <<p.Header.Version, p.Header.Type>> \o p.SessionID
            \o <<p.AuthMethod>> \o p.NonceServer)

\* Wrong variant of UnmarshalChallenge: the header is decoded before the
\* length is tested.
UnmarshalChallengeHeaderFirst(data) ==
    LET h == UnmarshalHeader(Slice(data, 0, HeaderSize)) IN
    IF h.err # NoError THEN Fail(h.err)
    ELSE IF Len(data) # PktChallengeSize THEN Fail(ErrInvalidPacketSize)
    ELSE IF h.val.Type # TypeChallenge THEN Fail(ErrIncorrectType)
    ELSE Ok([Header |-> h.val, SessionID |-> Slice(data, 6, 22),
             AuthMethod |-> data[23], NonceServer |-> Slice(data, 23, 39)])

UnmarshalChallenge(data) ==
    IF Len(data) # PktChallengeSize THEN Fail(ErrInvalidPacketSize)
    ELSE LET h == UnmarshalHeader(Slice(data, 0, HeaderSize)) IN
    IF h.err # NoError THEN Fail(h.err)
    ELSE IF h.val.Type # TypeChallenge THEN Fail(ErrIncorrectType)
    ELSE Ok([Header |-> h.val, SessionID |-> Slice(data, 6, 22),
             AuthMethod |-> data[23], NonceServer |-> Slice(data, 23, 39)])

(***************************************************************************)
(* ANSWER (PktAnswer).                                                     *)
(***************************************************************************)
NewAnswer(sessionID, authHash) ==
    [Header |-> createHeader(TypeAnswer), SessionID |-> sessionID, AuthHash |-> authHash]

MarshalAnswer(p) ==
    IF p.Header.Magic # MAGIC THEN Fail(ErrInvalidMagic)
    ELSE Ok(p.Header.Magic \o <<p.Header.Version, p.Header.Type>> \o p.SessionID
            \o p.AuthHash)

UnmarshalAnswer(data) ==
    IF Len(data) # PktAnswerSize THEN Fail(ErrInvalidPacketSize)
    ELSE LET h == UnmarshalHeader(Slice(data, 0, HeaderSize)) IN
    IF h.err # NoError THEN Fail(h.err)
    ELSE IF h.val.Type # TypeAnswer THEN Fail(ErrIncorrectType)
    ELSE Ok([Header |-> h.val, SessionID |-> Slice(data, 6, 22),
             AuthHash |-> Slice(data, 22, 54)])

(***************************************************************************)
(* ACK (PktAck).                                                           *)
(***************************************************************************)
NewAck(sessionID, auth, code) ==
    [Header |-> createHeader(TypeAck), SessionID |-> sessionID, Auth |-> auth, Code |-> code]

MarshalAck(p) ==
    IF p.Header.Magic # MAGIC THEN Fail(ErrInvalidMagic)
    ELSE Ok(p.Header.Magic \o <<p.Header.Version, p.Header.Type>> \o p.SessionID
            \o <<p.Auth, p.Code>>)

UnmarshalAck(data) ==
    IF Len(data) # PktAckSize THEN Fail(ErrInvalidPacketSize)
    ELSE LET h == UnmarshalHeader(Slice(data, 0, HeaderSize)) IN
    IF h.err # NoError THEN Fail(h.err)
    ELSE IF h.val.Type # TypeAck THEN Fail(ErrIncorrectType)
    ELSE Ok([Header |-> h.val, SessionID |-> Slice(data, 6, 22),
             Auth |-> data[23], Code |-> data[24]])

(***************************************************************************)
(* RESULT (PktResult).                                                     *)
(***************************************************************************)
NewResult(sessionID, bytesSent, bytesReceived) ==
    [Header |-> createHeader(TypeResult), SessionID |-> sessionID,
     BytesSent |-> bytesSent, BytesReceived |-> bytesReceived]

\* Wrong variant of Marshal: the two totals in each other's place.
MarshalResultSwapped(p) ==
    IF p.Header.Magic # MAGIC THEN Fail(ErrInvalidMagic)
    ELSE Ok(p.Header.Magic \o <<p.Header.Version, p.Header.Type>> \o p.SessionID
            \o LEPut(p.BytesReceived, 8) \o LEPut(p.BytesSent, 8))

MarshalResult(p) ==
    IF p.Header.Magic # MAGIC THEN Fail(ErrInvalidMagic)
    ELSE Ok(p.Header.Magic \o <<p.Header.Version, p.Header.Type>> \o p.SessionID
            \o LEPut(p.BytesSent, 8) \o LEPut(p.BytesReceived, 8))

UnmarshalResult(data) ==
    IF Len(data) # PktResultSize THEN Fail(ErrInvalidPacketSize)
    ELSE LET h == UnmarshalHeader(Slice(data, 0, HeaderSize)) IN
    IF h.err # NoError THEN Fail(h.err)
    ELSE IF h.val.Type # TypeResult THEN Fail(ErrIncorrectType)
    ELSE Ok([Header |-> h.val, SessionID |-> Slice(data, 6, 22),
             BytesSent |-> LEGet(Slice(data, 22, 30)),
             BytesReceived |-> LEGet(Slice(data, 30, 38))])

(***************************************************************************)
(* Authentication hash.                                                    *)
(***************************************************************************)
\* HMAC pads a key shorter than the block with zero bytes: keys that differ
\* only in trailing zeros are the same key
RECURSIVE HMACKey(_)
HMACKey(key) ==
    IF key # <<>> /\ key[Len(key)] = 0 THEN HMACKey(SubSeq(key, 1, Len(key) - 1)) ELSE key

\* hmac.New(sha256.New, key) over msg: 32 positions, collision-free in the
\* padded key and msg
HMAC_SHA256(key, msg) == [i \in 1..32 |-> IF i = 1 THEN <<HMACKey(key), msg>> ELSE <<>>]

\* [32]byte{}: the zero digest
ZeroHash == [i \in 1..32 |-> <<>>]

ComputeAuthHash(helloPktBytes, nonceServer, psk) ==
    HMAC_SHA256(psk, helloPktBytes \o nonceServer)

\* Wrong variants of VerifyAuthHash: one that accepts every digest, one that
\* hashes the HELLO without its header.
VerifyAuthHashAny(helloPktBytes, nonceServer, psk, receivedHash) == TRUE
VerifyAuthHashBodyOnly(helloPktBytes, nonceServer, psk, receivedHash) ==
    ComputeAuthHash(SubSeq(helloPktBytes, HeaderSize + 1, Len(helloPktBytes)),
                    nonceServer, psk) = receivedHash

VerifyAuthHash(helloPktBytes, nonceServer, psk, receivedHash) ==
    ComputeAuthHash(helloPktBytes, nonceServer, psk) = receivedHash

(***************************************************************************)
(* The state.                                                              *)
(*   opts      ServerOpts as given to NewServerTCP                         *)
(*   slots     number of permits in the channel ServerTCP.slots            *)
(*   crashed   the server process died of a panic no goroutine recovered   *)
(*   spc, sv   each server session (goroutine of ServerTCP.handle): where  *)
(*             it is, and its local variables                              *)
(*   cpc, cv   each client (ClientTCP.Run, or a hand-written peer)         *)
(*   c2s       bytes written by the client and not yet read by the server  *)
(*   s2c       every packet the server side wrote, in order; s2cPos is the *)
(*             number of their bytes the client has read                   *)
(*   cClosed, sClosed   the endpoint has closed the connection             *)
(*   rawSends  packets a hand-written peer has written                     *)
(***************************************************************************)
VARIABLES opts, slots, crashed, spc, sv, cpc, cv, c2s, s2c, s2cPos,
          cClosed, sClosed, rawSends

\* the handshake of the sessions
hvars == <<opts, slots, crashed, spc, sv, cpc, cv, c2s, s2c, s2cPos,
           cClosed, sClosed, rawSends>>

(***************************************************************************)
(* The data phase of one session (transfer.TransferData on both peers):    *)
(*   tcfg   what the HELLO fixed: direction, chunk size, warmup, duration  *)
(*   now    the clock, in units of TickMS milliseconds                     *)
(*   eng    per peer: the engine, its context, gate, counters, pumps,      *)
(*          reporter and buffered writer                                   *)
(*   wire   per peer: the bytes it has written that the other peer has not *)
(*          read yet, and how it has closed the connection                 *)
(* The accept loop of ServerTCP.Run:                                       *)
(*   lsn    the listener, the parent context and the loop's position       *)
(* The packet codec on its own:                                            *)
(*   codec  a value handed to Marshal or to an Unmarshal function, and     *)
(*          what came back                                                 *)
(***************************************************************************)
VARIABLES tcfg, now, eng, wire, lsn, codec

tvars == <<tcfg, now, eng, wire>>

\* what a handshake step leaves alone
dataVars == <<tcfg, now, eng, wire, lsn, codec>>

vars == <<opts, slots, crashed, spc, sv, cpc, cv, c2s, s2c, s2cPos,
          cClosed, sClosed, rawSends, tcfg, now, eng, wire, lsn, codec>>

Conns == DOMAIN spc

\* a nil pointer
Nil == [nil |-> TRUE]

\* the pre-shared keys of the model: none, the server's, another one
NoPSK == <<>>
PSK1 == <<115, 101, 99>>
PSK2 == <<120>>

\* utils.NewNonce: 16 random bytes; the k-th value of the model
Nonce(k) == [i \in 1..16 |-> k]
Nonces == {Nonce(k) : k \in 1..NumNonces}
\* the nonces the server draws on connection c, and the one a client draws
ServerNonces(c) == IF c = 1 THEN Nonces ELSE {Nonce(1)}
ClientNonce == Nonce(2)

\* utils.NewULID: a fresh session id; the one connection c gets
NewULID(c) == [i \in 1..16 |-> IF i = 16 THEN c ELSE 1]

RECURSIVE Flatten(_)
Flatten(pkts) == IF Len(pkts) = 0 THEN <<>> ELSE Head(pkts) \o Flatten(Tail(pkts))

(***************************************************************************)
(* NewServerTCP, slotAcquire, slotRelease.                                 *)
(***************************************************************************)
\* the capacity of the slots channel: MaxConcurrentTests, 1 when it is 0
SlotsCap(o) == IF o.MaxConcurrentTests <= 0 THEN 1 ELSE o.MaxConcurrentTests

\* authEnabled: len(opts.PSK) > 0
AuthEnabled(o) == Len(o.PSK) > 0

NewServerTCP(o) ==
    /\ opts = o
    /\ slots = SlotsCap(o)
    /\ crashed = FALSE

\* Wrong variants of slotAcquire, which the properties below must tell from
\* the right one: one that admits without looking at the channel, one that
\* refuses while a token is left.
slotAcquireUnchecked(n) == [ok |-> TRUE, slots |-> IF n > 0 THEN n - 1 ELSE n]
slotAcquireEarlyBusy(n) == IF n > 1 THEN [ok |-> TRUE, slots |-> n - 1]
                           ELSE [ok |-> FALSE, slots |-> n]

\* a wrong variant of slotRelease: the token is not put back
slotReleaseLost(n) == n

\* select { case <-s.slots: true; default: false }: never waits
slotAcquire(n) == IF n > 0 THEN [ok |-> TRUE, slots |-> n - 1]
                  ELSE [ok |-> FALSE, slots |-> n]

\* s.slots <- struct{}{}: waits while the channel is full
slotReleaseReady(n) == n < SlotsCap(opts)
slotRelease(n) == n + 1

(***************************************************************************)
(* utils.ReadExact on the server's side of connection c: n bytes, or an    *)
(* error when they are not there before the deadline or the stream's end.  *)
(***************************************************************************)
SrvCanRead(c, n) == Len(c2s[c]) >= n
SrvTake(c, n) == SubSeq(c2s[c], 1, n)
SrvRest(c, n) == SubSeq(c2s[c], n + 1, Len(c2s[c]))

\* the bytes the client has still to read
CliUnread(c) == LET all == Flatten(s2c[c]) IN SubSeq(all, s2cPos[c] + 1, Len(all))
CliCanRead(c, n) == Len(CliUnread(c)) >= n
CliTake(c, n) == SubSeq(CliUnread(c), 1, n)

\* A read fails (deadline or end of stream) when the bytes are not there.  A
\* running ClientTCP or server session writes what its peer waits for within
\* the timeout; a hand-written peer may stall at any point.
SrvReadFails(c, n) == ~SrvCanRead(c, n) /\ (cpc[c] \in {"raw", "done"})
CliReadFails(c, n) == ~CliCanRead(c, n) /\ (crashed \/ spc[c] \in {"raw", "done"})

\* a write can fail once the peer has closed the connection, which a
\* hand-written peer may have done at any point
SrvWriteCanFail(c) == cClosed[c] \/ cpc[c] = "raw"
CliWriteCanFail(c) == sClosed[c] \/ crashed \/ spc[c] = "raw"

(***************************************************************************)
(* The server session: ServerTCP.handle and what it calls.                 *)
(* spc: recvHeader -> recvHello -> [recvAnswerHeader -> recvAnswer ->]     *)
(*      admit -> transfer -> defers -> done                                *)
(* "defers" is the return from handle (or the unwinding of its panic):     *)
(* the deferred slotRelease, w.Flush and conn.Close have yet to run.       *)
(***************************************************************************)
ErrPanic == "panic: nil pointer dereference"
ErrAnswerVersion == "unsupported protocol version in answer packet"
ErrBusy == "server is busy: max concurrent tests reached"
ErrInvalidDirection == "invalid direction"

SvInit == [bufHeader |-> <<>>, header |-> Nil, answerHeader |-> Nil,
           bufHello |-> <<>>, pktHello |-> Nil,
           helloErr |-> NoError, nonceServer |-> <<>>, authHash |-> <<>>,
           verified |-> "none", deferRelease |-> FALSE, panicking |-> FALSE,
           err |-> NoError, acquired |-> 0, released |-> 0, refused |-> FALSE]

\* the locals of a goroutine that has returned: its buffers are garbage; the
\* header it was started by, the error it returned and what it did with the
\* semaphore remain on record
SvDead(rec) == [SvInit EXCEPT !.header = rec.header,
                              !.helloErr = rec.helloErr, !.verified = rec.verified,
                              !.panicking = rec.panicking, !.err = rec.err,
                              !.acquired = rec.acquired, !.released = rec.released,
                              !.refused = rec.refused]

SrvGoto(c, pc, rec) ==
    /\ spc' = [spc EXCEPT ![c] = pc]
    /\ sv' = [sv EXCEPT ![c] = rec]

\* handle returns e
SrvExit(c, rec, e) == SrvGoto(c, "defers", [rec EXCEPT !.err = e])

\* a nil pointer is dereferenced: the goroutine panics
SrvPanic(c, rec) == SrvGoto(c, "defers", [rec EXCEPT !.err = ErrPanic, !.panicking = TRUE])

\* a wrong variant of SrvSend: the packet is written twice
SrvSendTwice(c, bytes) == s2c' = [s2c EXCEPT ![c] = Append(Append(@, bytes), bytes)]

\* SendPacket on the server's writer: Marshal, Write, Flush
SrvSend(c, bytes) == s2c' = [s2c EXCEPT ![c] = Append(@, bytes)]

\* a wrong variant of handle: the type is looked at before the version
handleTypeFirst(header) ==
    IF header.Type # TypeHello THEN ErrIncorrectType
    ELSE IF header.Version # FloVersion1 THEN ErrUnsupportedVersion
    ELSE NoError

\* handleV1's first check: the first packet must be a HELLO
handleV1Type(header) == IF header.Type # TypeHello THEN ErrIncorrectType ELSE NoError

\* handle: the switch on the version of the first header
handle(header) ==
    IF header.Version = FloVersion1 THEN handleV1Type(header) ELSE ErrUnsupportedVersion

\* handleAuthV1: the checks on the header that follows the CHALLENGE
handleAuthV1Header(header) ==
    IF header.Version # FloVersion1 THEN ErrAnswerVersion
    ELSE IF header.Type # TypeAnswer THEN ErrIncorrectType
    ELSE NoError

\* AuthOf of a server that announces HMAC whatever its PSK
AuthOfAlwaysHMAC(o) == AuthHMAC

\* the auth value of handleV1
AuthOf(o) == IF AuthEnabled(o) THEN AuthHMAC ELSE AuthNone

\* AckBytes with an id of the server's own in place of the session's
AckBytesOwnID(sessionID, auth, code) == MarshalAck(NewAck(Zeros(16), auth, code)).val

AckBytes(sessionID, auth, code) == MarshalAck(NewAck(sessionID, auth, code)).val
ChallengeBytes(sessionID, nonce) ==
    MarshalChallenge(NewChallenge(sessionID, AuthHMAC, nonce)).val

\* handle: recvHeader, then the dispatch on version and type
SrvRecvHeader(c) ==
    /\ UNCHANGED dataVars
    /\ ~crashed /\ spc[c] = "recvHeader"
    /\ UNCHANGED <<opts, slots, crashed, cpc, cv, s2c, s2cPos, cClosed, sClosed, rawSends>>
    /\ \/ /\ SrvCanRead(c, HeaderSize)
          /\ c2s' = [c2s EXCEPT ![c] = SrvRest(c, HeaderSize)]
          /\ LET buf == SrvTake(c, HeaderSize)
                 h == UnmarshalHeader(buf)
             IN IF h.err # NoError THEN SrvExit(c, sv[c], h.err)
                ELSE LET rec == [sv[c] EXCEPT !.bufHeader = buf, !.header = h.val]
                     IN IF handle(h.val) # NoError THEN SrvExit(c, rec, handle(h.val))
                        ELSE SrvGoto(c, "recvHello", rec)
       \/ /\ SrvReadFails(c, HeaderSize)
          /\ UNCHANGED c2s
          /\ SrvExit(c, sv[c], ErrRead)

\* recvHelloV1: what it returns when the body is there
recvHelloV1(bufHeader, body) ==
    LET bufHello == bufHeader \o body
        u == UnmarshalHello(bufHello)
    IN IF u.err # NoError THEN [pktHello |-> Nil, bufHello |-> <<>>, err |-> u.err]
       ELSE [pktHello |-> u.val, bufHello |-> bufHello, err |-> NoError]

\* handleV1 after recvHelloV1, whose error it does not look at: with
\* authentication, handleAuthV1 up to the CHALLENGE sent; else on to the slot
SrvAfterHello(c, r) ==
    LET rec == [sv[c] EXCEPT !.pktHello = r.pktHello, !.bufHello = r.bufHello,
                             !.helloErr = r.err]
    IN IF ~AuthEnabled(opts) THEN SrvGoto(c, "admit", rec) /\ UNCHANGED s2c
       ELSE \E nonce \in ServerNonces(c) :
              IF r.pktHello = Nil THEN SrvPanic(c, rec) /\ UNCHANGED s2c
              ELSE \/ /\ SrvSend(c, ChallengeBytes(r.pktHello.SessionID, nonce))
                      /\ SrvGoto(c, "recvAnswerHeader", [rec EXCEPT !.nonceServer = nonce])
                   \/ /\ SrvWriteCanFail(c)
                      /\ UNCHANGED s2c
                      /\ SrvExit(c, rec, ErrWrite)

SrvRecvHello(c) ==
    /\ UNCHANGED dataVars
    /\ ~crashed /\ spc[c] = "recvHello"
    /\ UNCHANGED <<opts, slots, crashed, cpc, cv, s2cPos, cClosed, sClosed, rawSends>>
    /\ \/ /\ SrvCanRead(c, PktHelloSize - HeaderSize)
          /\ c2s' = [c2s EXCEPT ![c] = SrvRest(c, PktHelloSize - HeaderSize)]
          /\ SrvAfterHello(c, recvHelloV1(sv[c].bufHeader, SrvTake(c, PktHelloSize - HeaderSize)))
       \/ /\ SrvReadFails(c, PktHelloSize - HeaderSize)
          /\ UNCHANGED c2s
          /\ SrvAfterHello(c, [pktHello |-> Nil, bufHello |-> <<>>, err |-> ErrRead])

\* handleAuthV1: the header of the ANSWER
SrvRecvAnswerHeader(c) ==
    /\ UNCHANGED dataVars
    /\ ~crashed /\ spc[c] = "recvAnswerHeader"
    /\ UNCHANGED <<opts, slots, crashed, cpc, cv, s2c, s2cPos, cClosed, sClosed, rawSends>>
    /\ \/ /\ SrvCanRead(c, HeaderSize)
          /\ c2s' = [c2s EXCEPT ![c] = SrvRest(c, HeaderSize)]
          /\ LET buf == SrvTake(c, HeaderSize)
                 h == UnmarshalHeader(buf)
             IN IF h.err # NoError THEN SrvExit(c, sv[c], h.err)
                ELSE LET rec == [sv[c] EXCEPT !.bufHeader = buf, !.answerHeader = h.val]
                     IN IF handleAuthV1Header(h.val) # NoError
                        THEN SrvExit(c, rec, handleAuthV1Header(h.val))
                        ELSE SrvGoto(c, "recvAnswer", rec)
       \/ /\ SrvReadFails(c, HeaderSize)
          /\ UNCHANGED c2s
          /\ SrvExit(c, sv[c], ErrRead)

\* handleAuthV1: recvAnswerV1 and the verification; handleV1: the ACK of a
\* failed authentication
SrvRecvAnswer(c) ==
    /\ UNCHANGED dataVars
    /\ ~crashed /\ spc[c] = "recvAnswer"
    /\ UNCHANGED <<opts, slots, crashed, cpc, cv, s2cPos, cClosed, sClosed, rawSends>>
    /\ \/ /\ SrvCanRead(c, PktAnswerSize - HeaderSize)
          /\ c2s' = [c2s EXCEPT ![c] = SrvRest(c, PktAnswerSize - HeaderSize)]
          /\ LET bufAnswer == sv[c].bufHeader \o SrvTake(c, PktAnswerSize - HeaderSize)
                 a == UnmarshalAnswer(bufAnswer)
             IN IF a.err # NoError THEN SrvExit(c, sv[c], a.err) /\ UNCHANGED s2c
                ELSE LET verified == VerifyAuthHash(sv[c].bufHello, sv[c].nonceServer,
                                                    opts.PSK, a.val.AuthHash)
                         rec == [sv[c] EXCEPT !.authHash = a.val.AuthHash,
                                   !.verified = IF verified THEN "ok" ELSE "failed"]
                     IN IF verified THEN SrvGoto(c, "admit", rec) /\ UNCHANGED s2c
                        ELSE \/ /\ SrvSend(c, AckBytes(rec.pktHello.SessionID,
                                                       AuthOf(opts), AckAuthFailed))
                                /\ SrvExit(c, rec, ErrAuthFailed)
                             \/ /\ SrvWriteCanFail(c)
                                /\ UNCHANGED s2c
                                /\ SrvExit(c, rec, ErrWrite)
       \/ /\ SrvReadFails(c, PktAnswerSize - HeaderSize)
          /\ UNCHANGED <<c2s, s2c>>
          /\ SrvExit(c, sv[c], ErrRead)

\* handleV1 after the ACK(OK): the switch on the direction
DirectionKnown(d) == d \in {DirectionBidi, DirectionUpload, DirectionDownload}

\* handleV1: slotAcquire, then the ACK (Busy, or OK after defer slotRelease)
SrvAdmit(c) ==
    /\ UNCHANGED dataVars
    /\ ~crashed /\ spc[c] = "admit"
    /\ UNCHANGED <<opts, crashed, cpc, cv, c2s, s2cPos, cClosed, sClosed, rawSends>>
    /\ LET a == slotAcquire(slots)
           hello == sv[c].pktHello
       IN /\ slots' = a.slots
          /\ IF ~a.ok
             THEN LET rec == [sv[c] EXCEPT !.refused = TRUE]
                  IN IF hello = Nil THEN SrvPanic(c, rec) /\ UNCHANGED s2c
                     ELSE \/ /\ SrvSend(c, AckBytes(hello.SessionID, AuthOf(opts), AckBusy))
                             /\ SrvExit(c, rec, ErrBusy)
                          \/ /\ SrvWriteCanFail(c)
                             /\ UNCHANGED s2c
                             /\ SrvExit(c, rec, ErrWrite)
             ELSE LET rec == [sv[c] EXCEPT !.deferRelease = TRUE, !.acquired = @ + 1]
                  IN IF hello = Nil THEN SrvPanic(c, rec) /\ UNCHANGED s2c
                     ELSE \/ /\ SrvSend(c, AckBytes(hello.SessionID, AuthOf(opts), AckOK))
                             /\ IF DirectionKnown(hello.Direction)
                                THEN SrvGoto(c, "transfer", rec)
                                ELSE SrvExit(c, rec, ErrInvalidDirection)
                          \/ /\ SrvWriteCanFail(c)
                             /\ UNCHANGED s2c
                             /\ SrvExit(c, rec, ErrWrite)

\* handleV1: TransferData returns (always nil), the totals are logged
SrvTransferEnd(c) ==
    /\ UNCHANGED dataVars
    /\ ~crashed /\ spc[c] = "transfer"
    /\ UNCHANGED <<opts, slots, crashed, cpc, cv, c2s, s2c, s2cPos, cClosed, sClosed, rawSends>>
    /\ SrvExit(c, sv[c], NoError)

\* the deferred calls of handleV1 and handle, last registered first: slotRelease
\* (when registered), w.Flush, conn.Close; a panic then ends the process
SrvDefers(c) ==
    /\ UNCHANGED dataVars
    /\ ~crashed /\ spc[c] = "defers"
    /\ UNCHANGED <<opts, cpc, cv, s2c, s2cPos, cClosed, rawSends>>
    /\ sv[c].deferRelease => slotReleaseReady(slots)
    /\ slots' = IF sv[c].deferRelease THEN slotRelease(slots) ELSE slots
    /\ sClosed' = [sClosed EXCEPT ![c] = TRUE]
    /\ c2s' = [c2s EXCEPT ![c] = <<>>]
    /\ crashed' = sv[c].panicking
    /\ SrvGoto(c, "done", [SvDead(sv[c]) EXCEPT !.deferRelease = FALSE,
                             !.released = IF sv[c].deferRelease THEN @ + 1 ELSE @])

(***************************************************************************)
(* The client: ClientTCP.Run.                                              *)
(* cpc: sendHello -> recvHeader -> [recvChallenge -> recvHeader2 ->]       *)
(*      recvAck -> transfer -> done                                        *)
(* Run's only deferred call is conn.Close: every return closes.            *)
(***************************************************************************)
DEFAULT_DURATION_MS == 10000
DEFAULT_WARMUP_MS == 1000

\* the messages of the errors ClientTCP.Run returns
CliErr ==
    [SendHello |-> "failed to send hello packet",
     RecvHeader |-> "failed to receive packet header",
     RecvChallenge |-> "failed to receive challenge packet",
     SendAnswer |-> "failed to send answer packet",
     ExpectedAck |-> "expected Ack packet",
     RecvAck |-> "failed to receive ack packet",
     UnexpectedType |-> "unexpected packet type",
     AuthFailed |-> "authentication failed: incorrect preshared key",
     Busy |-> "server is busy: max concurrent tests reached",
     AckCode |-> "received unexpected ack code",
     Direction |-> "invalid direction"]

CvInit(kind, psk, runOpts) ==
    [kind |-> kind, psk |-> psk, runOpts |-> runOpts, pktHello |-> Nil, bufHello |-> <<>>,
     bufHeader |-> <<>>, headers |-> <<>>, pktAck |-> Nil, answered |-> FALSE,
     err |-> NoError]

CliGoto(c, pc, rec) ==
    /\ cpc' = [cpc EXCEPT ![c] = pc]
    /\ cv' = [cv EXCEPT ![c] = rec]

\* Run returns e; the deferred conn.Close runs
CliExit(c, rec, e) ==
    /\ CliGoto(c, "done", [rec EXCEPT !.err = e, !.bufHello = <<>>, !.bufHeader = <<>>,
                                      !.pktHello = Nil])
    /\ cClosed' = [cClosed EXCEPT ![c] = TRUE]

\* Write and Flush on the client's writer; a closed server end discards the bytes
CliSend(c, bytes) ==
    c2s' = [c2s EXCEPT ![c] = IF sClosed[c] \/ crashed THEN @ ELSE @ \o bytes]
CliAdvance(c, n) == s2cPos' = [s2cPos EXCEPT ![c] = @ + n]

\* Run: sendHelloV1 with the options of RunOpts
CliSendHello(c) ==
    /\ UNCHANGED dataVars
    /\ cpc[c] = "sendHello"
    /\ UNCHANGED <<opts, slots, crashed, spc, sv, s2c, s2cPos, sClosed, rawSends>>
    /\ LET nonce == ClientNonce IN
         LET o == cv[c].runOpts
             pktHello == NewHello(TransportTCP, NewULID(c), SecurityNone, o.Direction,
                                  o.ChunkSize, DEFAULT_DURATION_MS, DEFAULT_WARMUP_MS, nonce)
             bufHello == MarshalHello(pktHello).val
         IN \/ /\ CliSend(c, bufHello)
               /\ CliGoto(c, "recvHeader",
                          [cv[c] EXCEPT !.pktHello = pktHello, !.bufHello = bufHello])
               /\ UNCHANGED cClosed
            \/ /\ CliWriteCanFail(c)
               /\ UNCHANGED c2s
               /\ CliExit(c, cv[c], CliErr.SendHello)

\* Wrong variant of the switch: every type but CHALLENGE is taken for an ACK.
RunFirstTypeNoDefault(header) ==
    IF header.Type = TypeChallenge THEN "recvChallenge" ELSE "recvAck"

\* Run: the switch on the type of the first header read
RunFirstType(header) ==
    IF header.Type = TypeChallenge THEN "recvChallenge"
    ELSE IF header.Type = TypeAck THEN "recvAck"
    ELSE CliErr.UnexpectedType

\* Run: the first recvHeader and the switch on its type
CliRecvHeader(c) ==
    /\ UNCHANGED dataVars
    /\ cpc[c] = "recvHeader"
    /\ UNCHANGED <<opts, slots, crashed, spc, sv, c2s, s2c, sClosed, rawSends>>
    /\ \/ /\ CliCanRead(c, HeaderSize)
          /\ CliAdvance(c, HeaderSize)
          /\ LET buf == CliTake(c, HeaderSize)
                 h == UnmarshalHeader(buf)
             IN IF h.err # NoError THEN CliExit(c, cv[c], CliErr.RecvHeader)
                ELSE LET rec == [cv[c] EXCEPT !.bufHeader = buf,
                                              !.headers = Append(@, h.val)]
                     IN IF RunFirstType(h.val) = CliErr.UnexpectedType
                        THEN CliExit(c, rec, CliErr.UnexpectedType)
                        ELSE CliGoto(c, RunFirstType(h.val), rec) /\ UNCHANGED cClosed
       \/ /\ CliReadFails(c, HeaderSize)
          /\ UNCHANGED s2cPos
          /\ CliExit(c, cv[c], CliErr.RecvHeader)

\* Run: recvChallengeV1, ComputeAuthHash over the HELLO bytes sent, sendAnswerV1
CliRecvChallenge(c) ==
    /\ UNCHANGED dataVars
    /\ cpc[c] = "recvChallenge"
    /\ UNCHANGED <<opts, slots, crashed, spc, sv, s2c, sClosed, rawSends>>
    /\ \/ /\ CliCanRead(c, PktChallengeSize - HeaderSize)
          /\ CliAdvance(c, PktChallengeSize - HeaderSize)
          /\ LET buf == cv[c].bufHeader \o CliTake(c, PktChallengeSize - HeaderSize)
                 ch == UnmarshalChallenge(buf)
             IN IF ch.err # NoError
                THEN CliExit(c, cv[c], CliErr.RecvChallenge) /\ UNCHANGED c2s
                ELSE LET hash == ComputeAuthHash(cv[c].bufHello, ch.val.NonceServer,
                                                 cv[c].psk)
                         bufAnswer == MarshalAnswer(NewAnswer(NewULID(c), hash)).val
                     IN \/ /\ CliSend(c, bufAnswer)
                           /\ CliGoto(c, "recvHeader2", [cv[c] EXCEPT !.answered = TRUE])
                           /\ UNCHANGED cClosed
                        \/ /\ CliWriteCanFail(c)
                           /\ UNCHANGED c2s
                           /\ CliExit(c, cv[c], CliErr.SendAnswer)
       \/ /\ CliReadFails(c, PktChallengeSize - HeaderSize)
          /\ UNCHANGED <<s2cPos, c2s>>
          /\ CliExit(c, cv[c], CliErr.RecvChallenge)

\* Run: the header after the ANSWER must be an ACK's
CliRecvHeader2(c) ==
    /\ UNCHANGED dataVars
    /\ cpc[c] = "recvHeader2"
    /\ UNCHANGED <<opts, slots, crashed, spc, sv, c2s, s2c, sClosed, rawSends>>
    /\ \/ /\ CliCanRead(c, HeaderSize)
          /\ CliAdvance(c, HeaderSize)
          /\ LET buf == CliTake(c, HeaderSize)
                 h == UnmarshalHeader(buf)
             IN IF h.err # NoError THEN CliExit(c, cv[c], CliErr.RecvHeader)
                ELSE LET rec == [cv[c] EXCEPT !.bufHeader = buf,
                                              !.headers = Append(@, h.val)]
                     IN IF h.val.Type # TypeAck THEN CliExit(c, rec, CliErr.ExpectedAck)
                        ELSE CliGoto(c, "recvAck", rec) /\ UNCHANGED cClosed
       \/ /\ CliReadFails(c, HeaderSize)
          /\ UNCHANGED s2cPos
          /\ CliExit(c, cv[c], CliErr.RecvHeader)

\* Wrong variants of the switch on the code of the ACK: one without the case
\* of AckAuthFailed, which then proceeds; one without the default case
RunAckCodeNoAuthCase(code) ==
    IF code = AckBusy THEN CliErr.Busy
    ELSE IF code \in {AckOK, AckAuthFailed} THEN NoError
    ELSE CliErr.AckCode
RunAckCodeNoDefault(code) ==
    IF code = AckAuthFailed THEN CliErr.AuthFailed
    ELSE IF code = AckBusy THEN CliErr.Busy
    ELSE NoError

\* Run: the switch on the code of the ACK
RunAckCode(code) ==
    IF code = AckAuthFailed THEN CliErr.AuthFailed
    ELSE IF code = AckBusy THEN CliErr.Busy
    ELSE IF code = AckOK THEN NoError
    ELSE CliErr.AckCode

\* Run: recvAckV1, the switch on the code, the switch on the direction
CliRecvAck(c) ==
    /\ UNCHANGED dataVars
    /\ cpc[c] = "recvAck"
    /\ UNCHANGED <<opts, slots, crashed, spc, sv, c2s, s2c, sClosed, rawSends>>
    /\ \/ /\ CliCanRead(c, PktAckSize - HeaderSize)
          /\ CliAdvance(c, PktAckSize - HeaderSize)
          /\ LET buf == cv[c].bufHeader \o CliTake(c, PktAckSize - HeaderSize)
                 a == UnmarshalAck(buf)
             IN IF a.err # NoError THEN CliExit(c, cv[c], CliErr.RecvAck)
                ELSE LET rec == [cv[c] EXCEPT !.pktAck = a.val]
                     IN IF RunAckCode(a.val.Code) # NoError
                        THEN CliExit(c, rec, RunAckCode(a.val.Code))
                        ELSE IF DirectionKnown(cv[c].runOpts.Direction)
                        THEN CliGoto(c, "transfer", rec) /\ UNCHANGED cClosed
                        ELSE CliExit(c, rec, CliErr.Direction)
       \/ /\ CliReadFails(c, PktAckSize - HeaderSize)
          /\ UNCHANGED s2cPos
          /\ CliExit(c, cv[c], CliErr.RecvAck)

\* Run: TransferData returns (always nil), the totals are logged, Run returns nil
CliTransferEnd(c) ==
    /\ UNCHANGED dataVars
    /\ cpc[c] = "transfer"
    /\ UNCHANGED <<opts, slots, crashed, spc, sv, c2s, s2c, s2cPos, sClosed, rawSends>>
    /\ CliExit(c, cv[c], NoError)

(***************************************************************************)
(* ServerTCP.Run: the accept loop hands each connection to a goroutine     *)
(* running handle.                                                         *)
(***************************************************************************)
Accept(c) ==
    /\ UNCHANGED dataVars
    /\ ~crashed /\ spc[c] = "listen"
    /\ UNCHANGED <<opts, slots, crashed, cpc, cv, c2s, s2c, s2cPos, cClosed, sClosed, rawSends>>
    /\ SrvGoto(c, "recvHeader", sv[c])

(***************************************************************************)
(* A peer that is not ClientTCP: it writes bytes of its own making.  It    *)
(* writes a packet when the server waits for one and nothing is unread     *)
(* (what the server reads from a stream does not depend on when the bytes  *)
(* were written).  It may stop writing or close at any time: that shows    *)
(* only in the server's reads and writes, which can then fail.             *)
(***************************************************************************)
\* the bytes of a HELLO with the given fields, valid or not
HelloBytes(magic0, version, type, sid, transport, security, direction, flags, chunkSize, durationMS, nonce) ==
    <<magic0, 76, 79, 0, version, type>> \o sid \o <<transport, security, direction>>
    \o LEPut(flags, 2) \o LEPut(chunkSize, 4) \o LEPut(durationMS, 8)
    \o LEPut(DEFAULT_WARMUP_MS, 8) \o nonce

\* a valid HELLO
GoodHello(c) == HelloBytes(70, 1, TypeHello, NewULID(c), TransportTCP, SecurityNone,
                           DirectionUpload, 0, DEFAULT_CHUNK_SIZE, MinDurationMS, ClientNonce)

\* the first packets a hand-written client writes: a valid HELLO, and HELLOs
\* with one thing wrong
RawHellos(c) ==
    LET sid == NewULID(c) n == ClientNonce IN
    { GoodHello(c),
      HelloBytes(71, 1, TypeHello, sid, 1, 0, 1, 0, 1024, 1000, n),
      HelloBytes(70, 2, TypeHello, sid, 1, 0, 1, 0, 1024, 1000, n),
      HelloBytes(70, 2, TypeAck, sid, 1, 0, 1, 0, 1024, 1000, n),
      HelloBytes(70, 1, TypeAnswer, sid, 1, 0, 1, 0, 1024, 1000, n),
      HelloBytes(70, 1, TypeHello, sid, 1, 0, 3, 0, 1024, 1000, n),
      HelloBytes(70, 1, TypeHello, sid, 1, 0, 1, 1, 1024, 1000, n),
      HelloBytes(70, 1, TypeHello, sid, 1, 0, 1, 0, 9, 1000, n),
      HelloBytes(70, 1, TypeHello, sid, 1, 0, 1, 0, 1024, 999, n),
      HelloBytes(70, 1, TypeHello, sid, 1, 0, 1, 0, 1024, 1000, Zeros(16)),
      SubSeq(GoodHello(c), 1, HeaderSize) }

\* the bytes of an ANSWER with the given header fields and digest
AnswerBytes(version, type, sid, hash) == <<70, 76, 79, 0, version, type>> \o sid \o hash

\* the nonce of the CHALLENGE the server sent last on connection c
LastNonce(c) == UnmarshalChallenge(s2c[c][Len(s2c[c])]).val.NonceServer

\* the answers a hand-written client writes to a CHALLENGE: the right digest,
\* digests under another key, over another nonce, over other bytes, the zero
\* digest, and the right digest under a wrong header
RawAnswers(c) ==
    LET sid == NewULID(c)
        hello == cv[c].bufHello
        good == ComputeAuthHash(hello, LastNonce(c), PSK1)
    IN { AnswerBytes(1, TypeAnswer, sid, good),
         AnswerBytes(1, TypeAnswer, sid, ComputeAuthHash(hello, LastNonce(c), PSK2)),
         AnswerBytes(1, TypeAnswer, sid, ComputeAuthHash(hello, Zeros(16), PSK1)),
         AnswerBytes(1, TypeAnswer, sid, ComputeAuthHash(Tail(hello), LastNonce(c), PSK1)),
         AnswerBytes(1, TypeAnswer, sid, ZeroHash),
         AnswerBytes(2, TypeAnswer, sid, good),
         AnswerBytes(1, TypeAck, sid, good) }

RawSend(c) ==
    /\ UNCHANGED dataVars
    /\ cpc[c] = "raw"
    /\ rawSends[c] < MaxRawSends
    /\ c2s[c] = <<>>
    /\ UNCHANGED <<opts, slots, crashed, spc, sv, cpc, s2c, s2cPos, cClosed, sClosed>>
    /\ rawSends' = [rawSends EXCEPT ![c] = @ + 1]
    /\ \/ /\ spc[c] \in {"listen", "recvHeader"}
          /\ \E bytes \in RawHellos(c) :
               /\ CliSend(c, bytes)
               /\ cv' = [cv EXCEPT ![c].bufHello = bytes]
       \/ /\ spc[c] = "recvHello"
          /\ \E bytes \in RawHellos(c) :
               /\ Len(bytes) = PktHelloSize
               /\ SubSeq(bytes, 1, HeaderSize) = sv[c].bufHeader
               /\ CliSend(c, Slice(bytes, HeaderSize, PktHelloSize))
               /\ cv' = [cv EXCEPT ![c].bufHello = bytes]
       \/ /\ spc[c] = "recvAnswerHeader"
          /\ \E bytes \in RawAnswers(c) : CliSend(c, bytes)
          /\ UNCHANGED cv

(***************************************************************************)
(* Spec: one server, NumConns connections, each from a ClientTCP or from   *)
(* a hand-written client.                                                  *)
(***************************************************************************)
ServerPSKs == {NoPSK, PSK1}
ClientPSKs == {NoPSK, PSK1}

\* RunOpts of the model: the defaults, and a chunk size the server refuses
RunOptsSet == { [Direction |-> DirectionBidi, ChunkSize |-> DEFAULT_CHUNK_SIZE],
                [Direction |-> DirectionUpload, ChunkSize |-> MinChunkSize - 1] }

DefaultRunOpts == [Direction |-> DirectionBidi, ChunkSize |-> DEFAULT_CHUNK_SIZE]

\* Connection 1 is the session under study: its peer is a ClientTCP of any
\* configuration or a hand-written client.  The other connections are
\* concurrent load: ClientTCP runs with the server's key and the default options.
ClientConfigs(c, serverPSK) ==
    IF c = 1
    THEN {CvInit("ClientTCP", psk, o) : psk \in ClientPSKs, o \in RunOptsSet}
         \cup {CvInit("raw", NoPSK, DefaultRunOpts)}
    ELSE {CvInit("ClientTCP", serverPSK, DefaultRunOpts)}

\* the data phase and the accept loop are not part of this specification
NoDataPhase ==
    tcfg = Nil /\ now = 0 /\ eng = Nil /\ wire = Nil /\ lsn = Nil /\ codec = Nil

InitConns(N) ==
    /\ spc = [c \in 1..N |-> "listen"]
    /\ sv = [c \in 1..N |-> SvInit]
    /\ cpc = [c \in 1..N |-> IF cv[c].kind = "raw" THEN "raw" ELSE "sendHello"]
    /\ c2s = [c \in 1..N |-> <<>>]
    /\ s2c = [c \in 1..N |-> <<>>]
    /\ s2cPos = [c \in 1..N |-> 0]
    /\ cClosed = [c \in 1..N |-> FALSE]
    /\ sClosed = [c \in 1..N |-> FALSE]
    /\ rawSends = [c \in 1..N |-> 0]
    /\ NoDataPhase

Init ==
    /\ \E psk \in ServerPSKs, n \in {0, MaxTests} :
         /\ NewServerTCP([PSK |-> psk, MaxConcurrentTests |-> n])
         /\ cv \in {f \in [1..NumConns -> UNION {ClientConfigs(c, psk) : c \in 1..NumConns}] :
                      \A c \in 1..NumConns : f[c] \in ClientConfigs(c, psk)}
    /\ InitConns(NumConns)

Next ==
    \/ \E c \in Conns : Accept(c)
    \/ \E c \in Conns : SrvRecvHeader(c)
    \/ \E c \in Conns : SrvRecvHello(c)
    \/ \E c \in Conns : SrvRecvAnswerHeader(c)
    \/ \E c \in Conns : SrvRecvAnswer(c)
    \/ \E c \in Conns : SrvAdmit(c)
    \/ \E c \in Conns : SrvTransferEnd(c)
    \/ \E c \in Conns : SrvDefers(c)
    \/ \E c \in Conns : CliSendHello(c)
    \/ \E c \in Conns : CliRecvHeader(c)
    \/ \E c \in Conns : CliRecvChallenge(c)
    \/ \E c \in Conns : CliRecvHeader2(c)
    \/ \E c \in Conns : CliRecvAck(c)
    \/ \E c \in Conns : CliTransferEnd(c)
    \/ \E c \in Conns : RawSend(c)

Spec == Init /\ [][Next]_vars

(***************************************************************************)
(* SpecClient: one ClientTCP against a peer that is not ServerTCP and       *)
(* writes packets of its own making.  It writes a packet when the client   *)
(* waits for a header and nothing is unread, and may stall at any point.   *)
(***************************************************************************)
\* the bytes of a packet with the given header fields
PacketBytes(magic0, version, type, rest) == <<magic0, 76, 79, 0, version, type>> \o rest

\* the replies of the hand-written server: CHALLENGEs and ACKs of version 1
\* and 2, ACKs of every code and one more, a wrong magic, types the client
\* does not expect, and an ACK cut after its header
RawReplies(c) ==
    LET sid == NewULID(c) IN
    { PacketBytes(70, v, TypeChallenge, sid \o <<AuthHMAC>> \o Nonce(1)) : v \in {1, 2} }
    \cup { PacketBytes(70, 1, TypeAck, sid \o <<AuthNone, code>>) : code \in AckOK..AckBusy + 1 }
    \cup { PacketBytes(70, 2, TypeAck, sid \o <<AuthNone, AckOK>>),
           PacketBytes(71, 1, TypeAck, sid \o <<AuthNone, AckOK>>),
           PacketBytes(70, 1, TypeResult, sid \o <<AuthNone, AckOK>>),
           PacketBytes(70, 1, TypeAck, <<>>) }

RawReply(c) ==
    /\ UNCHANGED dataVars
    /\ spc[c] = "raw"
    /\ rawSends[c] < MaxRawSends
    /\ cpc[c] \in {"recvHeader", "recvHeader2"}
    /\ CliUnread(c) = <<>>
    /\ UNCHANGED <<opts, slots, crashed, spc, sv, cpc, cv, c2s, s2cPos, cClosed, sClosed>>
    /\ rawSends' = [rawSends EXCEPT ![c] = @ + 1]
    /\ \E bytes \in RawReplies(c) : SrvSend(c, bytes)

\* RunOpts of SpecClient: those of Spec, and a direction that does not exist
RunOptsClient == RunOptsSet \cup {[Direction |-> 3, ChunkSize |-> DEFAULT_CHUNK_SIZE]}

InitClient ==
    /\ NewServerTCP([PSK |-> NoPSK, MaxConcurrentTests |-> 1])
    /\ cv \in [1..1 -> {CvInit("ClientTCP", psk, o) : psk \in ClientPSKs, o \in RunOptsClient}]
    /\ spc = [c \in 1..1 |-> "raw"]
    /\ sv = [c \in 1..1 |-> SvInit]
    /\ cpc = [c \in 1..1 |-> "sendHello"]
    /\ c2s = [c \in 1..1 |-> <<>>]
    /\ s2c = [c \in 1..1 |-> <<>>]
    /\ s2cPos = [c \in 1..1 |-> 0]
    /\ cClosed = [c \in 1..1 |-> FALSE]
    /\ sClosed = [c \in 1..1 |-> FALSE]
    /\ rawSends = [c \in 1..1 |-> 0]
    /\ NoDataPhase

NextClient ==
    \/ \E c \in Conns : CliSendHello(c)
    \/ \E c \in Conns : CliRecvHeader(c)
    \/ \E c \in Conns : CliRecvChallenge(c)
    \/ \E c \in Conns : CliRecvHeader2(c)
    \/ \E c \in Conns : CliRecvAck(c)
    \/ \E c \in Conns : CliTransferEnd(c)
    \/ \E c \in Conns : RawReply(c)

SpecClient == InitClient /\ [][NextClient]_vars

(***************************************************************************)
(* The data phase of one admitted session: transfer.TransferData, called   *)
(* by ServerTCP.handleV1 and by ClientTCP.Run, over one TCP connection.    *)
(*                                                                         *)
(* Time.  The clock `now` counts units of graceMS milliseconds.  A timer   *)
(* set for d milliseconds fires when the clock has advanced by at least    *)
(* Ticks(d) units, and may fire later: a goroutine is never scheduled at   *)
(* once.  The 100 ms timer of the drain is shorter than one unit, so it    *)
(* may fire at any reading of the clock.                                   *)
(*                                                                         *)
(* Data.  Counters and buffers count chunks (one chunk is one buffer of    *)
(* chunkSize bytes of a pump).  The connection holds at most PipeCap       *)
(* chunks per direction (the socket buffers of both hosts): a write to the *)
(* connection blocks while they are full, as TransferData has cleared the  *)
(* I/O deadlines.                                                          *)
(***************************************************************************)
\* the clock stops here
MaxTime == 6
\* the chunks the connection holds in one direction
PipeCap == 1
\* a counter of Stats stops here in a bidirectional test, and one chunk
\* later in a test of one direction: a pump that would count more waits
MaxCount == 1
\* the units of the clock by which one peer may start after the other
MaxSkew == 1

graceMS == 250
tickerMS == 1000
drainMS == 100
defaultBufSize == 4096

Ticks(ms) == ms \div graceMS

ErrEOF == "EOF"
ErrDeadlineExceeded == "context deadline exceeded"
ErrCanceled == "context canceled"
ErrConn == "connection reset or closed"

Peers == {"client", "server"}
Other(p) == IF p = "client" THEN "server" ELSE "client"

\* the reader and the writer ServerTCP.handleV1 and ClientTCP.Run hand to
\* TransferData: nil for the side the direction does not use
HasR(p) ==
    IF p = "server" THEN tcfg.Direction \in {DirectionBidi, DirectionUpload}
    ELSE tcfg.Direction \in {DirectionBidi, DirectionDownload}

\* HasW of a client that hands over its writer as the server does
HasWNotMirrored(p) ==
    tcfg.Direction \in {DirectionBidi, DirectionDownload}

HasW(p) ==
    IF p = "server" THEN tcfg.Direction \in {DirectionBidi, DirectionDownload}
    ELSE tcfg.Direction \in {DirectionBidi, DirectionUpload}

\* count of TransferData: the pumps it starts
PumpCount(p) == (IF HasR(p) THEN 1 ELSE 0) + (IF HasW(p) THEN 1 ELSE 0)

\* the chunks a bufio.Writer of the default size holds before it writes to
\* the connection; 0 when a chunk is larger than its buffer and every Write
\* goes to the connection directly
BufChunks == defaultBufSize \div tcfg.ChunkSize

\* the chunks a counter of Stats may reach
CountCap == IF tcfg.Direction = DirectionBidi THEN MaxCount ELSE MaxCount + 1

\* ctx.Done() of the engine's child context is closed
CtxDone(p) == eng[p].ctxErr # NoError

\* cancel(): ends the child context unless it has ended
cancel(e) == IF e.ctxErr = NoError THEN [e EXCEPT !.ctxErr = ErrCanceled] ELSE e

\* the engine before TransferData is called
EngInit ==
    [pc |-> "idle", ctxErr |-> NoError, deadline |-> 0, counting |-> FALSE,
     bytesSent |-> 0, bytesRcvd |-> 0, errCh |-> <<>>, errStop |-> NoError,
     premature |-> FALSE, ret |-> "none", callerErr |-> "none",
     flushes |-> 0, closeWrites |-> 0,
     send |-> "none", recv |-> "none", wbuf |-> 0, werr |-> FALSE,
     rep |-> "none", repAt |-> 0, flippedAt |-> 0,
     lastBytesSent |-> 0, lastBytesRcvd |-> 0, events |-> <<>>,
     logger |-> "none"]

WireInit == [data |-> 0, fin |-> FALSE, closed |-> FALSE, rst |-> FALSE]

\* a write of peer p to the connection fails: p has closed it or shut its
\* write side, or the other peer has closed
ConnWriteFails(p) == wire[p].closed \/ wire[p].fin \/ wire[Other(p)].closed

\* a write of n chunks of peer p to the connection does not block
ConnHasRoom(p, n) == wire[p].data + n <= PipeCap

\* TransferData up to the start of its goroutines (loops.go 129-162); the
\* pumps find the new context alive and go to their first I/O
StartEngine(p) ==
    /\ p \in tcfg.Engines
    /\ eng[p].pc = "idle"
    /\ UNCHANGED <<hvars, lsn, codec, tcfg, now, wire>>
    /\ eng' = [eng EXCEPT ![p] =
                 [@ EXCEPT !.pc = "select",
                           !.deadline = now + Ticks(tcfg.DurationMS + tcfg.WarmupMS),
                           !.send = IF HasW(p) THEN "io" ELSE "none",
                           !.recv = IF HasR(p) THEN "io" ELSE "none",
                           !.rep = "warmup",
                           !.repAt = now + Ticks(tcfg.WarmupMS),
                           !.logger = "recv"]]

\* a timer of peer p is due: the deadline of its context, the warmup wait or
\* the ticker of its reporter (a reporter that has left its loop has stopped
\* its ticker)
TimerDue(p) ==
    \/ eng[p].pc # "idle" /\ ~CtxDone(p) /\ now >= eng[p].deadline
    \/ eng[p].rep \in {"warmup", "loop"} /\ now >= eng[p].repAt

\* the times of the timers that have not fired
Timers ==
    {eng[p].deadline : p \in {q \in Peers : eng[q].pc # "idle" /\ ~CtxDone(q)}}
    \cup {eng[p].repAt : p \in {q \in Peers : eng[q].rep \in {"warmup", "loop"}}}

\* the time from which a stop is within the grace of the deadline (loops.go
\* 190-211), followed for the engine of the client when it runs alone
GraceStops ==
    {eng[p].deadline - Ticks(graceMS) :
        p \in {q \in Peers : tcfg.Engines = {"client"} /\ q = "client"
                                /\ eng[q].pc # "idle" /\ ~CtxDone(q)}}

\* time passes, once every timer that is due has fired: up to the time of
\* the next timer or to the start of the grace, as nothing reads the clock in
\* between but the classification of a stop, which reads it when a peer has
\* acted.  A peer that is late enters its data phase at most MaxSkew units
\* after the other.  The clock stops at limit.
TickTo(limit) ==
    /\ \A p \in tcfg.Engines : ~TimerDue(p)
    /\ \E p \in tcfg.Engines : eng[p].pc # "idle"
    /\ \A p \in tcfg.Engines : eng[p].pc = "idle" => now < MaxSkew
    /\ \E t \in Timers \cup GraceStops \cup {now + 1} :
         /\ t > now /\ t <= limit
         /\ \A u \in Timers \cup GraceStops : u > now => t <= u
         /\ t = now + 1 => (now + 1 \in Timers \/ now < MaxSkew)
         /\ now' = t
    /\ UNCHANGED <<hvars, lsn, codec, tcfg, eng, wire>>

Tick == TickTo(MaxTime)

\* the timer of context.WithTimeout fires
DeadlineFire(p) ==
    /\ eng[p].pc # "idle" /\ ~CtxDone(p)
    /\ now >= eng[p].deadline
    /\ eng' = [eng EXCEPT ![p].ctxErr = ErrDeadlineExceeded]
    /\ UNCHANGED <<hvars, lsn, codec, tcfg, now, wire>>

\* the parent context is cancelled: the child context ends with it
ParentCancel(p) ==
    /\ eng[p].pc # "idle" /\ ~CtxDone(p)
    /\ eng' = [eng EXCEPT ![p].ctxErr = ErrCanceled]
    /\ UNCHANGED <<hvars, lsn, codec, tcfg, now, wire>>

\* the classification of the stop (loops.go 190-211); remaining is
\* time.Until(deadline), negative once the deadline has passed
\* Wrong variant of Premature: without the grace.
PrematureNoGrace(errStop, remaining) ==
    CASE errStop = NoError -> FALSE
      [] errStop = ErrDeadlineExceeded -> FALSE
      [] errStop = ErrEOF -> remaining > 0
      [] OTHER -> ~(remaining <= 0)

Premature(errStop, remaining) ==
    CASE errStop = NoError -> FALSE
      [] errStop = ErrDeadlineExceeded -> FALSE
      [] errStop = ErrEOF -> remaining > Ticks(graceMS)
      [] OTHER -> ~(remaining <= Ticks(graceMS))

\* Finish returning the error that stopped the engine
FinishWithErrStop(e) ==
    [cancel(e) EXCEPT !.pc = "returned",
                      !.premature = Premature(e.errStop, e.deadline - now),
                      !.ret = e.errStop]

\* the end of TransferData: the classification, the return and the deferred
\* cancel()
Finish(e) ==
    [cancel(e) EXCEPT !.pc = "returned",
                      !.premature = Premature(e.errStop, e.deadline - now),
                      !.ret = NoError]

\* the drain loop runs count - 1 times: once when both pumps were started
AfterHalfClose(p, e) == IF 1 < PumpCount(p) THEN [e EXCEPT !.pc = "drain"] ELSE Finish(e)

\* the select of TransferData (loops.go 166-172): the context has ended, or
\* a pump has published its result
MainStop(p) ==
    /\ eng[p].pc = "select"
    /\ UNCHANGED <<hvars, lsn, codec, tcfg, now, wire>>
    /\ \E from \in {"ctx", "errCh"} :
         /\ from = "ctx" => CtxDone(p)
         /\ from = "errCh" => eng[p].errCh # <<>>
         /\ LET e == eng[p]
                stopped == IF from = "ctx"
                           THEN [e EXCEPT !.errStop = e.ctxErr]
                           ELSE cancel([e EXCEPT !.errStop = Head(e.errCh),
                                                 !.errCh = Tail(e.errCh)])
            IN eng' = [eng EXCEPT ![p] = IF HasW(p)
                                         THEN [stopped EXCEPT !.pc = "halfClose"]
                                         ELSE AfterHalfClose(p, stopped)]

\* w.Flush() blocks: the buffered writer holds chunks, the connection has no
\* room for them, and nothing makes the write fail
FlushBlocks(p) ==
    /\ eng[p].wbuf > 0 /\ ~eng[p].werr
    /\ ~ConnWriteFails(p)
    /\ ~ConnHasRoom(p, eng[p].wbuf)

\* MainHalfClose without its CloseWrite
MainHalfCloseFlushOnly(p) ==
    /\ eng[p].pc = "halfClose"
    /\ ~FlushBlocks(p)
    /\ UNCHANGED <<hvars, lsn, codec, tcfg, now>>
    /\ LET e == eng[p]
           written == e.wbuf > 0 /\ ~e.werr /\ ~ConnWriteFails(p)
           flushed == [e EXCEPT !.wbuf = IF written THEN 0 ELSE @,
                                !.werr = @ \/ (e.wbuf > 0 /\ ~written),
                                !.flushes = @ + 1]
       IN /\ eng' = [eng EXCEPT ![p] = AfterHalfClose(p, flushed)]
          /\ wire' = [wire EXCEPT ![p].data = IF written THEN @ + e.wbuf ELSE @]

\* the half-close (loops.go 175-180): w.Flush(), then CloseWrite
MainHalfClose(p) ==
    /\ eng[p].pc = "halfClose"
    /\ ~FlushBlocks(p)
    /\ UNCHANGED <<hvars, lsn, codec, tcfg, now>>
    /\ LET e == eng[p]
           written == e.wbuf > 0 /\ ~e.werr /\ ~ConnWriteFails(p)
           flushed == [e EXCEPT !.wbuf = IF written THEN 0 ELSE @,
                                !.werr = @ \/ (e.wbuf > 0 /\ ~written),
                                !.flushes = @ + 1,
                                !.closeWrites = @ + 1]
       IN /\ eng' = [eng EXCEPT ![p] = AfterHalfClose(p, flushed)]
          /\ wire' = [wire EXCEPT ![p].data = IF written THEN @ + e.wbuf ELSE @,
                                  ![p].fin = TRUE]

\* the drain (loops.go 183-188): the other pump's result, or the drainMS
\* timer, which is shorter than one unit of the clock
MainDrain(p) ==
    /\ eng[p].pc = "drain"
    /\ UNCHANGED <<hvars, lsn, codec, tcfg, now, wire>>
    /\ \E from \in {"errCh", "timer"} :
         /\ from = "errCh" => eng[p].errCh # <<>>
         /\ from = "timer" => now >= now + Ticks(drainMS)
         /\ eng' = [eng EXCEPT ![p] =
                      Finish(IF from = "errCh" THEN [@ EXCEPT !.errCh = Tail(@)] ELSE @)]

\* what ServerTCP.handleV1 and ClientTCP.Run return for the result of
\* TransferData (server/tcp.go 316-334, client/tcp.go 240-258)
TransferFailed(p, ret) ==
    IF ret = NoError THEN NoError
    ELSE CASE tcfg.Direction = DirectionBidi -> "data transfer failed: " \o ret
           [] HasR(p) -> "data receive failed: " \o ret
           [] OTHER -> "data send failed: " \o ret

\* the caller after TransferData has returned (server/tcp.go 336 and its
\* defers at 124, 129; client/tcp.go 260 and 147): its own result, w.Flush(),
\* conn.Close().  Closing with unread data resets the connection.
CallerClose(p) ==
    /\ eng[p].pc = "returned"
    /\ UNCHANGED <<hvars, lsn, codec, tcfg, now>>
    /\ eng' = [eng EXCEPT ![p].pc = "closed", ![p].werr = @ \/ eng[p].wbuf > 0,
                          ![p].callerErr = TransferFailed(p, eng[p].ret)]
    /\ wire' = [wire EXCEPT ![p].closed = TRUE,
                            ![p].rst = wire[Other(p)].data > 0]

\* a pump publishes its result on errCh, which has room for every pump, and
\* returns
Publish(e, pump, err) == [e EXCEPT !.errCh = Append(@, err), ![pump] = "done"]

\* the head of the loop of a pump (loops.go 24-28, 49-53): it returns nil
\* when the context has ended, and goes on to its next I/O otherwise
LoopHead(p, e, pump) == IF CtxDone(p) THEN Publish(e, pump, NoError) ELSE e

\* SendLoop: w.Write(buf) and what follows it up to the next w.Write
\* (loops.go 30-41, 24-28).  The chunk goes into the buffered writer while it
\* has room; otherwise the writer first writes what it holds to the
\* connection, or the chunk itself when the chunk is larger than its buffer.
SendWrite(p) ==
    /\ eng[p].send = "io"
    /\ UNCHANGED <<hvars, lsn, codec, tcfg, now>>
    /\ LET e == eng[p]
           inBuffer == e.wbuf < BufChunks /\ ~e.werr
           fails == ~inBuffer /\ (e.werr \/ ConnWriteFails(p))
           toConn == IF BufChunks = 0 THEN 1 ELSE e.wbuf
       IN /\ inBuffer \/ fails \/ ConnHasRoom(p, toConn)
          /\ fails \/ ~e.counting \/ e.bytesSent < CountCap
          /\ IF fails
             THEN /\ eng' = [eng EXCEPT ![p] =
                               Publish([e EXCEPT !.werr = TRUE], "send",
                                       IF CtxDone(p) THEN NoError ELSE ErrConn)]
                  /\ wire' = wire
             ELSE /\ eng' = [eng EXCEPT ![p] =
                               LoopHead(p, [e EXCEPT !.bytesSent = IF e.counting THEN @ + 1 ELSE @,
                                                     !.wbuf = IF inBuffer THEN @ + 1
                                                              ELSE IF BufChunks = 0 THEN 0 ELSE 1],
                                        "send")]
                  /\ wire' = [wire EXCEPT ![p].data = IF inBuffer THEN @ ELSE @ + toConn]

\* RecvLoop: r.Read(buf) and what follows it up to the next r.Read
\* (loops.go 55-69, 49-53): a chunk, the end of the stream after the other
\* peer has shut its write side, or an error on a connection that was reset
\* or that this peer has closed
RecvRead(p) ==
    /\ eng[p].recv = "io"
    /\ UNCHANGED <<hvars, lsn, codec, tcfg, now>>
    /\ LET e == eng[p]
           o == Other(p)
           fails == wire[p].closed \/ wire[o].rst
           chunk == ~fails /\ wire[o].data > 0
           eof == ~fails /\ wire[o].data = 0 /\ (wire[o].fin \/ wire[o].closed)
       IN /\ fails \/ chunk \/ eof
          /\ chunk => (~e.counting \/ e.bytesRcvd < CountCap)
          /\ eng' = [eng EXCEPT ![p] =
                       IF chunk
                       THEN LoopHead(p, [e EXCEPT !.bytesRcvd = IF e.counting THEN @ + 1 ELSE @],
                                     "recv")
                       ELSE Publish(e, "recv", IF eof THEN ErrEOF
                                               ELSE IF CtxDone(p) THEN NoError ELSE ErrConn)]
          /\ wire' = [wire EXCEPT ![o].data = IF chunk THEN @ - 1 ELSE @]

\* RepFlip without the warmup wait
RepFlipAtOnce(p) ==
    /\ eng[p].rep = "warmup"
    /\ UNCHANGED <<hvars, lsn, codec, tcfg, now, wire>>
    /\ eng' = [eng EXCEPT ![p].counting = TRUE,
                          ![p].rep = "loop",
                          ![p].flippedAt = now,
                          ![p].repAt = now + Ticks(tickerMS)]

\* Reporter, the end of its warmup wait (loops.go 77-82): it opens the gate
\* and starts its ticker
RepFlip(p) ==
    /\ eng[p].rep = "warmup"
    /\ now >= eng[p].repAt
    /\ UNCHANGED <<hvars, lsn, codec, tcfg, now, wire>>
    /\ eng' = [eng EXCEPT ![p].counting = TRUE,
                          ![p].rep = "loop",
                          ![p].flippedAt = now,
                          ![p].repAt = now + Ticks(tickerMS)]

\* RepTick of a reporter that starts its ticker before its warmup wait
RepTickInWarmup(p) ==
    /\ eng[p].rep \in {"warmup", "loop"}
    /\ now >= eng[p].repAt
    /\ UNCHANGED <<hvars, lsn, codec, tcfg, now, wire>>
    /\ LET e == eng[p]
           diff == [at |-> now,
                    BytesSent |-> e.bytesSent - e.lastBytesSent,
                    BytesRcvd |-> e.bytesRcvd - e.lastBytesRcvd]
       IN eng' = [eng EXCEPT ![p] = [e EXCEPT !.lastBytesSent = e.bytesSent,
                                              !.lastBytesRcvd = e.bytesRcvd,
                                              !.repAt = @ + Ticks(tickerMS),
                                              !.events = Append(@, diff)]]

\* RepTick of a reporter that does not keep what it has read
RepTickKeepsNothing(p) ==
    /\ eng[p].rep = "loop"
    /\ now >= eng[p].repAt
    /\ UNCHANGED <<hvars, lsn, codec, tcfg, now, wire>>
    /\ LET e == eng[p]
           diff == [at |-> now,
                    BytesSent |-> e.bytesSent - e.lastBytesSent,
                    BytesRcvd |-> e.bytesRcvd - e.lastBytesRcvd]
       IN eng' = [eng EXCEPT ![p] = [e EXCEPT !.repAt = @ + Ticks(tickerMS),
                                              !.events = Append(@, diff)]]

\* Logger (loops.go 116-126): it receives the event the reporter sends on
\* statsCh, logs it, and waits for the next one.  Its loop has no other case
\* and no exit.
Logger(e, diff) == [e EXCEPT !.events = Append(@, diff), !.logger = "recv"]

\* Reporter, a tick (loops.go 91-108); Logger receives the event at once, as
\* it does nothing but receive (loops.go 116-126)
RepTick(p) ==
    /\ eng[p].rep = "loop"
    /\ now >= eng[p].repAt
    /\ UNCHANGED <<hvars, lsn, codec, tcfg, now, wire>>
    /\ LET e == eng[p]
           diff == [at |-> now,
                    BytesSent |-> e.bytesSent - e.lastBytesSent,
                    BytesRcvd |-> e.bytesRcvd - e.lastBytesRcvd]
       IN eng' = [eng EXCEPT ![p] =
                    Logger([e EXCEPT !.lastBytesSent = e.bytesSent,
                                     !.lastBytesRcvd = e.bytesRcvd,
                                     !.repAt = @ + Ticks(tickerMS)], diff)]

\* Reporter, the end of the context (loops.go 89-90)
RepExit(p) ==
    /\ eng[p].rep = "loop"
    /\ CtxDone(p)
    /\ UNCHANGED <<hvars, lsn, codec, tcfg, now, wire>>
    /\ eng' = [eng EXCEPT ![p].rep = "done"]

\* the sessions' handshakes are not part of this specification
NoHandshake ==
    /\ opts = Nil /\ slots = 0 /\ crashed = FALSE
    /\ spc = <<>> /\ sv = <<>> /\ cpc = <<>> /\ cv = <<>>
    /\ c2s = <<>> /\ s2c = <<>> /\ s2cPos = <<>>
    /\ cClosed = <<>> /\ sClosed = <<>> /\ rawSends = <<>>

\* a peer that is not an engine of this program: it writes chunks, reads
\* them, shuts its write side and closes the connection as it likes
RawPeer(q) ==
    /\ q \notin tcfg.Engines
    /\ ~wire[q].closed
    /\ UNCHANGED <<hvars, lsn, codec, tcfg, now, eng>>
    /\ \E op \in {"write", "read", "closeWrite", "close"} :
         CASE op = "write" ->
                /\ ~wire[q].fin /\ ~wire[Other(q)].closed /\ ConnHasRoom(q, 1)
                /\ wire' = [wire EXCEPT ![q].data = @ + 1]
           [] op = "read" ->
                /\ wire[Other(q)].data > 0
                /\ wire' = [wire EXCEPT ![Other(q)].data = @ - 1]
           [] op = "closeWrite" ->
                /\ ~wire[q].fin
                /\ wire' = [wire EXCEPT ![q].fin = TRUE]
           [] op = "close" ->
                wire' = [wire EXCEPT ![q].closed = TRUE,
                                     ![q].rst = wire[Other(q)].data > 0]

\* the tests the HELLO can fix: every direction, a chunk that fits the
\* buffered writer and one that does not, the shortest duration, with and
\* without a warmup; and the peers that run TransferData
InitData(engines) ==
    /\ NoHandshake /\ lsn = Nil /\ codec = Nil
    /\ tcfg \in [Direction : {DirectionBidi, DirectionUpload, DirectionDownload},
                 ChunkSize : {defaultBufSize, 2 * defaultBufSize},
                 WarmupMS : {0, graceMS},
                 DurationMS : {MinDurationMS},
                 Engines : engines]
    /\ now = 0
    /\ eng = [p \in Peers |-> EngInit]
    /\ wire = [p \in Peers |-> WireInit]

\* one engine against a peer of any behaviour: the engine of the server in
\* every test of one direction, with and without warmup and with both chunk
\* sizes, and in the bidirectional test with the chunk that fits the buffered
\* writer and no warmup; the engine of the client, which runs the same code
\* with the directions mirrored, in the tests of one direction with that
\* chunk and no warmup (its bidirectional test is the server's: both are
\* called with a reader and a writer)
InitTransfer ==
    /\ InitData({{"server"}, {"client"}})
    /\ (tcfg.Engines = {"client"} \/ tcfg.Direction = DirectionBidi)
         => (tcfg.ChunkSize = defaultBufSize /\ tcfg.WarmupMS = 0)
    /\ tcfg.Engines = {"client"} => tcfg.Direction # DirectionBidi

NextTransfer ==
    \/ Tick
    \/ \E p \in Peers : RawPeer(p)
    \/ \E p \in Peers : StartEngine(p)
    \/ \E p \in Peers : DeadlineFire(p)
    \/ \E p \in Peers : ParentCancel(p)
    \/ \E p \in Peers : MainStop(p)
    \/ \E p \in Peers : MainHalfClose(p)
    \/ \E p \in Peers : MainDrain(p)
    \/ \E p \in Peers : CallerClose(p)
    \/ \E p \in Peers : SendWrite(p)
    \/ \E p \in Peers : RecvRead(p)
    \/ \E p \in Peers : RepFlip(p)
    \/ \E p \in Peers : RepTick(p)
    \/ \E p \in Peers : RepExit(p)

SpecTransfer == InitTransfer /\ [][NextTransfer]_vars

(***************************************************************************)
(* SpecPair: the engines of the server and of the client against each       *)
(* other, in the tests with a chunk that fits the buffered writer and no    *)
(* warmup.  The parent contexts stay alive and the reporters open the gate  *)
(* and leave at the end of the context; their ticks, which nothing but the  *)
(* log reads, are in SpecTransfer.                                          *)
(***************************************************************************)
InitPair == InitData({Peers}) /\ tcfg.ChunkSize = defaultBufSize /\ tcfg.WarmupMS = 0

NextPair ==
    \/ Tick
    \/ \E p \in Peers : StartEngine(p)
    \/ \E p \in Peers : DeadlineFire(p)
    \/ \E p \in Peers : MainStop(p)
    \/ \E p \in Peers : MainHalfClose(p)
    \/ \E p \in Peers : MainDrain(p)
    \/ \E p \in Peers : CallerClose(p)
    \/ \E p \in Peers : SendWrite(p)
    \/ \E p \in Peers : RecvRead(p)
    \/ \E p \in Peers : RepFlip(p)
    \/ \E p \in Peers : RepExit(p)

SpecPair == InitPair /\ [][NextPair]_vars

(***************************************************************************)
(* SpecReporter: the engine of the server in a test of one direction that  *)
(* lasts two ticks of the reporter, against a peer of any behaviour.       *)
(***************************************************************************)
\* the clock of the longer test stops one tick of the reporter later
MaxReportTime == MaxTime + Ticks(tickerMS)

InitReporter ==
    /\ NoHandshake /\ lsn = Nil /\ codec = Nil
    /\ tcfg \in [Direction : {DirectionUpload, DirectionDownload},
                 ChunkSize : {defaultBufSize},
                 WarmupMS : {0, graceMS},
                 DurationMS : {2 * tickerMS},
                 Engines : {{"server"}}]
    /\ now = 0
    /\ eng = [p \in Peers |-> EngInit]
    /\ wire = [p \in Peers |-> WireInit]

\* the drain loop of TransferData runs count - 1 times: not at all here
NextReporter ==
    \/ TickTo(MaxReportTime)
    \/ \E p \in Peers : RawPeer(p)
    \/ \E p \in Peers : StartEngine(p)
    \/ \E p \in Peers : DeadlineFire(p)
    \/ \E p \in Peers : MainStop(p)
    \/ \E p \in Peers : MainHalfClose(p)
    \/ \E p \in Peers : CallerClose(p)
    \/ \E p \in Peers : SendWrite(p)
    \/ \E p \in Peers : RecvRead(p)
    \/ \E p \in Peers : RepFlip(p)
    \/ \E p \in Peers : RepTick(p)
    \/ \E p \in Peers : RepExit(p)

SpecReporter == InitReporter /\ [][NextReporter]_vars

(***************************************************************************)
(* SpecListener: the accept loop of ServerTCP.Run, the goroutine that      *)
(* closes the listener when the parent context ends, and the clients that  *)
(* connect.  A session is the goroutine Run starts for an accepted         *)
(* connection; what it does with the connection is in Spec.                *)
(***************************************************************************)
\* the connections that wait in the backlog of the listener
MaxBacklog == 2
\* the connections Accept returns
MaxAccepts == 3
\* the calls of Accept that fail on an open listener
MaxAcceptErrors == 2

\* Run after net.Listen has succeeded and the goroutine is started
LsnInit ==
    [ctxDone |-> FALSE, closed |-> FALSE, watcher |-> "waiting",
     loop |-> "accept", ret |-> "none", backlog |-> 0, acceptErrors |-> 0,
     sessions |-> <<>>]

\* a client connects: the kernel completes the connection and queues it
ListenerDial ==
    /\ ~lsn.closed /\ lsn.backlog < MaxBacklog
    /\ lsn' = [lsn EXCEPT !.backlog = @ + 1]
    /\ UNCHANGED <<hvars, tvars, codec>>

\* the parent context of Run is cancelled
CtxCancel ==
    /\ ~lsn.ctxDone
    /\ lsn' = [lsn EXCEPT !.ctxDone = TRUE]
    /\ UNCHANGED <<hvars, tvars, codec>>

\* the goroutine of Run: <-ctx.Done(), then listener.Close(), which drops
\* the connections of the backlog
ListenerWatcher ==
    /\ lsn.watcher = "waiting" /\ lsn.ctxDone
    /\ lsn' = [lsn EXCEPT !.watcher = "done", !.closed = TRUE, !.backlog = 0]
    /\ UNCHANGED <<hvars, tvars, codec>>

\* listener.Accept() returns a connection, and Run starts its session
AcceptConn ==
    /\ lsn.loop = "accept" /\ ~lsn.closed /\ lsn.backlog > 0
    /\ Len(lsn.sessions) < MaxAccepts
    /\ lsn' = [lsn EXCEPT !.backlog = @ - 1,
                          !.sessions = Append(@, [afterCancel |-> lsn.ctxDone])]
    /\ UNCHANGED <<hvars, tvars, codec>>

\* listener.Accept() returns an error: the listener is closed, or the call
\* failed on an open listener.  Run returns nil when the context has ended,
\* its deferred listener.Close() included, and goes on otherwise.
AcceptError ==
    /\ lsn.loop = "accept"
    /\ lsn.closed \/ lsn.acceptErrors < MaxAcceptErrors
    /\ lsn' = IF lsn.ctxDone
              THEN [lsn EXCEPT !.loop = "returned", !.ret = NoError,
                               !.closed = TRUE, !.backlog = 0]
              ELSE [lsn EXCEPT !.acceptErrors = @ + 1]
    /\ UNCHANGED <<hvars, tvars, codec>>

InitListener ==
    /\ NoHandshake /\ tcfg = Nil /\ now = 0 /\ eng = Nil /\ wire = Nil /\ codec = Nil
    /\ lsn = LsnInit

NextListener ==
    \/ ListenerDial
    \/ CtxCancel
    \/ ListenerWatcher
    \/ AcceptConn
    \/ AcceptError

SpecListener == InitListener /\ [][NextListener]_vars

(***************************************************************************)
(* The packet codec on its own: a packet is handed to its Marshal method,  *)
(* or a byte string to an Unmarshal function, and the result may be handed *)
(* to the opposite function.                                               *)
(***************************************************************************)
\* byte strings up to this much shorter or longer than a packet are decoded
MaxLenSkew == 1
\* the largest value the 8-byte fields take here
MaxField == 2^30 + (2^30 - 1)

Kinds == {TypeHello, TypeChallenge, TypeAnswer, TypeAck, TypeResult}

\* p.Marshal() of a packet of the kind
Marshal(kind, p) ==
    CASE kind = TypeHello -> MarshalHello(p)
      [] kind = TypeChallenge -> MarshalChallenge(p)
      [] kind = TypeAnswer -> MarshalAnswer(p)
      [] kind = TypeAck -> MarshalAck(p)
      [] kind = TypeResult -> MarshalResult(p)

\* the Unmarshal function of the kind
Unmarshal(kind, data) ==
    CASE kind = TypeHello -> UnmarshalHello(data)
      [] kind = TypeChallenge -> UnmarshalChallenge(data)
      [] kind = TypeAnswer -> UnmarshalAnswer(data)
      [] kind = TypeAck -> UnmarshalAck(data)
      [] kind = TypeResult -> UnmarshalResult(data)

\* 16-byte values with one, the first or the last byte set
Bytes16 == {Zeros(16), [i \in 1..16 |-> IF i = 1 THEN 1 ELSE 0],
            [i \in 1..16 |-> IF i = 16 THEN 128 ELSE 0]}

\* the packets of a kind as their constructor makes them, the fields drawn
\* from both sides of every limit UnmarshalHello tests
Packets(kind) ==
    CASE kind = TypeHello ->
           {[NewHello(t, NewULID(1), s, d, c, du, w, n) EXCEPT !.Flags = f] :
               t \in 0..4, s \in 0..2, d \in 0..3, f \in {0, 256},
               c \in {MinChunkSize - 1, MinChunkSize, MaxChunkSize, MaxChunkSize + 1},
               du \in {MinDurationMS - 1, MinDurationMS}, w \in {0, MaxField},
               n \in Bytes16}
      [] kind = TypeChallenge ->
           {NewChallenge(id, a, n) : id \in {NewULID(1), NewULID(2)},
               a \in {AuthNone, AuthHMAC, 255}, n \in Bytes16}
      [] kind = TypeAnswer ->
           {NewAnswer(id, h) : id \in {NewULID(1), NewULID(2)},
               h \in {ZeroHash, ComputeAuthHash(<<1>>, Nonce(1), PSK1),
                      ComputeAuthHash(<<1>>, Nonce(1), PSK2)}}
      [] kind = TypeAck ->
           {NewAck(id, a, c) : id \in {NewULID(1), NewULID(2)},
               a \in {AuthNone, AuthHMAC, 255}, c \in {AckOK, AckBusy, 255}}
      [] kind = TypeResult ->
           {NewResult(id, bs, br) : id \in {NewULID(1), NewULID(2)},
               bs \in {0, 1000, MaxField}, br \in {0, 258, MaxField}}

\* the headers a packet value can carry besides the constructor's: another
\* version, another type, other magic bytes
Headers(kind) ==
    {createHeader(kind), [createHeader(kind) EXCEPT !.Version = 2],
     [createHeader(kind) EXCEPT !.Type = (kind % 5) + 1],
     [createHeader(kind) EXCEPT !.Magic = <<70, 76, 79, 1>>]}

\* the byte string cut or zero-extended by delta bytes
Resize(data, delta) ==
    IF delta <= 0 THEN SubSeq(data, 1, Len(data) + delta) ELSE data \o Zeros(delta)

\* the byte strings handed to the decoder of a kind: encoded packets of the
\* kind, with other magic bytes, and of other lengths; and a packet of every
\* other kind
Inputs(kind) ==
    {Resize([Marshal(kind, [p EXCEPT !.Header = h]).val EXCEPT ![1] = m], delta) :
        p \in Packets(kind),
        h \in {x \in Headers(kind) : x.Magic = MAGIC},
        m \in {MAGIC[1], 0},
        delta \in (0 - MaxLenSkew)..MaxLenSkew}
    \cup {Marshal(k, CHOOSE p \in Packets(k) : TRUE).val : k \in Kinds \ {kind}}

CodecInit(kind, form, in) ==
    [kind |-> kind, form |-> form, in |-> in, cur |-> in, err |-> NoError, ops |-> <<>>]

\* p.Marshal()
CodecMarshal ==
    /\ codec.form = "packet" /\ codec.err = NoError /\ Len(codec.ops) < 2
    /\ LET r == Marshal(codec.kind, codec.cur)
       IN codec' = [codec EXCEPT !.form = "bytes", !.cur = r.val, !.err = r.err,
                                 !.ops = Append(@, "Marshal")]
    /\ UNCHANGED <<hvars, tvars, lsn>>

\* UnmarshalHello(data), UnmarshalChallenge(data), ...
CodecUnmarshal ==
    /\ codec.form = "bytes" /\ codec.err = NoError /\ Len(codec.ops) < 2
    /\ LET r == Unmarshal(codec.kind, codec.cur)
       IN codec' = [codec EXCEPT !.form = "packet", !.cur = r.val, !.err = r.err,
                                 !.ops = Append(@, "Unmarshal")]
    /\ UNCHANGED <<hvars, tvars, lsn>>

InitCodec ==
    /\ NoHandshake /\ tcfg = Nil /\ now = 0 /\ eng = Nil /\ wire = Nil /\ lsn = Nil
    /\ \E kind \in Kinds :
         \/ \E p \in Packets(kind), h \in Headers(kind) :
              codec = CodecInit(kind, "packet", [p EXCEPT !.Header = h])
         \/ \E data \in Inputs(kind) : codec = CodecInit(kind, "bytes", data)

NextCodec ==
    \/ CodecMarshal
    \/ CodecUnmarshal

SpecCodec == InitCodec /\ [][NextCodec]_vars

(***************************************************************************)
(* The times of the data phase at their width.  A uint64 field of the      *)
(* HELLO and a time.Duration (an int64 of nanoseconds, two's complement)   *)
(* are words of 8 bytes, least significant first, as on the wire.  Here    *)
(* tcfg holds the two fields of an accepted HELLO and what handleV1, Run   *)
(* and TransferData compute from them.                                     *)
(***************************************************************************)
\* b * k + carry on a number of Len(b) bytes, the carry out dropped (k small)
RECURSIVE MulBytes(_, _, _)
MulBytes(b, k, carry) ==
    IF b = <<>> THEN <<>>
    ELSE LET v == Head(b) * k + carry
         IN <<v % 256>> \o MulBytes(Tail(b), k, v \div 256)

\* a + b + carry on numbers of the same length, the carry out dropped
RECURSIVE AddBytes(_, _, _)
AddBytes(a, b, carry) ==
    IF a = <<>> THEN <<>>
    ELSE LET v == Head(a) + Head(b) + carry
         IN <<v % 256>> \o AddBytes(Tail(a), Tail(b), v \div 256)

\* time.Duration(ms) * time.Millisecond: the conversion of the uint64 to
\* int64 keeps the bits, the product is taken modulo 2^64
Milliseconds(ms) == MulBytes(ms, 1000000, 0)

\* the millisecond fields of the model: small ones, the largest number of
\* milliseconds an int64 of nanoseconds holds and its neighbours, 2^63, and
\* the largest uint64 and its neighbours
SmallMS == {LEPut(n, 8) : n \in {0, 1, 999, 1000, 1001, 86400000}}
LargeMS ==
    {<<14, 87, 208, 123, 99, 8, 0, 0>>, <<15, 87, 208, 123, 99, 8, 0, 0>>,
     <<246, 90, 208, 123, 99, 8, 0, 0>>, <<247, 90, 208, 123, 99, 8, 0, 0>>,
     <<0, 0, 0, 0, 0, 0, 0, 128>>,
     <<24, 252, 255, 255, 255, 255, 255, 255>>,
     <<255, 255, 255, 255, 255, 255, 255, 255>>}

\* UnmarshalHello's test of duration_ms (part_002:113)
DurationAccepted(ms) == (\E i \in 5..8 : ms[i] # 0) \/ LEGet(SubSeq(ms, 1, 4)) >= MinDurationMS

\* handleV1 (server/tcp.go 310-311) and Run (client/tcp.go 236-237): the
\* fields of the HELLO become durations
HelloTimes(by) ==
    /\ tcfg.pc = "hello" /\ tcfg.by = by
    /\ tcfg' = [tcfg EXCEPT !.pc = "converted",
                            !.duration = Milliseconds(tcfg.DurationMS),
                            !.warmup = Milliseconds(tcfg.WarmupMS)]
    /\ UNCHANGED <<hvars, now, eng, wire, lsn, codec>>

\* TransferData (loops.go 133-136): totalTime := duration + warmup, the time
\* of context.WithTimeout
TotalTime ==
    /\ tcfg.pc = "converted"
    /\ tcfg' = [tcfg EXCEPT !.pc = "started",
                            !.totalTime = AddBytes(tcfg.duration, tcfg.warmup, 0)]
    /\ UNCHANGED <<hvars, now, eng, wire, lsn, codec>>

\* the HELLOs UnmarshalHello accepts, on the server; on the client those of
\* them NewHello makes of the durations of RunOpts
InitTimes ==
    /\ NoHandshake /\ now = 0 /\ eng = Nil /\ wire = Nil /\ lsn = Nil /\ codec = Nil
    /\ \E by \in Peers, d \in {ms \in SmallMS \cup LargeMS : DurationAccepted(ms)},
          w \in SmallMS \cup LargeMS :
         /\ by = "client" => d \in SmallMS /\ w \in SmallMS
         /\ tcfg = [pc |-> "hello", by |-> by, DurationMS |-> d, WarmupMS |-> w,
                    duration |-> <<>>, warmup |-> <<>>, totalTime |-> <<>>]

NextTimes ==
    \/ HelloTimes("server")
    \/ HelloTimes("client")
    \/ TotalTime

SpecTimes == InitTimes /\ [][NextTimes]_vars

(***************************************************************************)
(* Admission control.                                                      *)
(***************************************************************************)
\* the sessions that hold a slot: from a successful slotAcquire to slotRelease
Holders == {c \in Conns : sv[c].deferRelease}

\* the ACKs the server has written on connection c, by code
IsAck(pkt, code) ==
    /\ Len(pkt) = PktAckSize
    /\ UnmarshalAck(pkt).err = NoError
    /\ UnmarshalAck(pkt).val.Code = code
AcksSent(c, code) == {i \in 1..Len(s2c[c]) : IsAck(s2c[c][i], code)}
SentAck(code) == {c \in Conns : AcksSent(c, code) # {}}

\* C1: in every reachable state the number of sessions that hold a slot is at
\* most N, the tokens left and the holders add up to N, and a
\* MaxConcurrentTests of 0 gives N = 1.
C1_SlotBound ==
    /\ Cardinality(Holders) <= SlotsCap(opts)
    /\ slots + Cardinality(Holders) = SlotsCap(opts)
    /\ slots >= 0
    /\ opts.MaxConcurrentTests = 0 => Cardinality(Holders) <= 1

\* C1's case: MaxConcurrentTests is 0, one session holds the slot (it is in
\* its data phase) and another has been refused
C1_Witness ==
    /\ opts.MaxConcurrentTests = 0
    /\ \E c, d \in Conns : /\ spc[c] = "transfer" /\ sv[c].deferRelease
                           /\ sv[d].refused

\* every session has been answered with ACK(OK) or ACK(Busy) and no admitted
\* session has ended: N+1 sessions passed the handshake concurrently
AllAnswered == Conns = SentAck(AckOK) \cup SentAck(AckBusy)
NoneReleased == \A c \in Conns : sv[c].released = 0

\* C2, the count: with N+1 sessions all answered while no admitted session
\* ends, exactly N were sent ACK(OK) and exactly one ACK(Busy)
C2_Counts ==
    (NumConns = SlotsCap(opts) + 1 /\ NoneReleased /\ AllAnswered)
        => /\ Cardinality(SentAck(AckOK)) = SlotsCap(opts)
           /\ Cardinality(SentAck(AckBusy)) = 1
           /\ SentAck(AckOK) \cap SentAck(AckBusy) = {}

\* C2, the refusal: a session is refused (and ACK(Busy) written) only in a
\* step that finds no token, all N slots held
C2_BusyOnlyWhenFull ==
    \A c \in Conns :
        ((sv'[c].refused /\ ~sv[c].refused)
           \/ (Len(s2c'[c]) > Len(s2c[c]) /\ IsAck(s2c'[c][Len(s2c'[c])], AckBusy)))
            => /\ slots = 0
               /\ Cardinality(Holders) = SlotsCap(opts)
               /\ sv'[c].refused /\ sv'[c].acquired = 0

\* C2, no waiting: a session at the try-acquire can always take its step
C2_NeverWaits == \A c \in Conns : (spc[c] = "admit" /\ ~crashed) => ENABLED SrvAdmit(c)

\* C2: N+1 concurrent sessions get exactly N ACK(OK) and one ACK(Busy); Busy
\* is sent only when all N slots are held; the try-acquire never waits.
C2_Admission == [](C2_Counts /\ C2_NeverWaits) /\ [][C2_BusyOnlyWhenFull]_vars

\* C2's case: N+1 sessions, all answered, none ended: N hold a slot in their
\* data phase and one was sent ACK(Busy)
C2_Witness ==
    /\ NumConns = SlotsCap(opts) + 1 /\ AllAnswered /\ NoneReleased
    /\ \E d \in Conns : /\ sv[d].refused /\ AcksSent(d, AckBusy) # {}
                        /\ \A c \in Conns \ {d} : spc[c] = "transfer"

\* C3, exactly once: a session that has returned released as often as it
\* acquired, at most once; one that still holds has not released
C3_ReleasedOnce ==
    \A c \in Conns :
        /\ sv[c].acquired \in {0, 1} /\ sv[c].released <= sv[c].acquired
        /\ sv[c].deferRelease <=> (sv[c].acquired = 1 /\ sv[c].released = 0)
        /\ spc[c] = "done" => sv[c].released = sv[c].acquired
        /\ spc[c] \in {"listen", "recvHeader", "recvHello", "recvAnswerHeader",
                       "recvAnswer", "admit"} => sv[c].acquired = 0
        /\ spc[c] = "transfer" => sv[c].deferRelease

\* C3, no blocking: when the deferred slotRelease runs the channel has room
C3_ReleaseNeverBlocks ==
    \A c \in Conns : (spc[c] = "defers" /\ sv[c].deferRelease) => slotReleaseReady(slots)

\* C3, refusal: a session refused with Busy never acquires and never releases
C3_RefusedReleasesNothing ==
    \A c \in Conns : sv[c].refused => (sv[c].acquired = 0 /\ sv[c].released = 0)

\* C3, after a release the next try-acquire succeeds; and only the return of
\* a holder changes the number of tokens upwards
C3_ReleaseAdmitsNext ==
    /\ \A c \in Conns : sv'[c].released > sv[c].released
            => (slots' = slots + 1 /\ slotAcquire(slots').ok /\ spc[c] = "defers")
    /\ slots' > slots => \E c \in Conns : sv'[c].released = sv[c].released + 1

\* C3: a session that acquired a slot releases it exactly once on every way
\* out, the release never blocks, a refused session releases nothing, and
\* after a release the next try-acquire succeeds.
C3_Release ==
    /\ [](C3_ReleasedOnce /\ C3_ReleaseNeverBlocks /\ C3_RefusedReleasesNothing)
    /\ [][C3_ReleaseAdmitsNext]_vars

\* C3's case: with one slot, a session that acquired it failed to send its
\* ACK(OK) and returned, releasing once; another session then acquired it
C3_Witness ==
    /\ SlotsCap(opts) = 1
    /\ \E c, d \in Conns :
         /\ c # d
         /\ spc[c] = "done" /\ sv[c].err = ErrWrite
         /\ sv[c].acquired = 1 /\ sv[c].released = 1
         /\ spc[d] = "transfer" /\ sv[d].deferRelease

(***************************************************************************)
(* Authentication.                                                         *)
(***************************************************************************)
\* the nonce in the CHALLENGE the server wrote on connection c (its first
\* packet when authentication is enabled)
SentNonce(c) == UnmarshalChallenge(s2c[c][1]).val.NonceServer

\* the session has been admitted: it took a slot, was written ACK(OK) or is
\* in its data phase
Admitted(c) == sv[c].acquired > 0 \/ AcksSent(c, AckOK) # {} \/ spc[c] = "transfer"

\* C4, the gate: with authentication enabled an admitted session has verified
C4_Gate == AuthEnabled(opts) => \A c \in Conns : Admitted(c) => sv[c].verified = "ok"

\* C4, what was verified: the digest of the ANSWER equals the HMAC under the
\* server's PSK of the HELLO bytes the peer wrote and the nonce of the
\* CHALLENGE written on this connection
C4_VerifiedDigest ==
    \A c \in Conns :
        (sv[c].verified = "ok" /\ spc[c] \in {"admit", "transfer"})
            => /\ s2c[c] # <<>> /\ Len(s2c[c][1]) = PktChallengeSize
               /\ sv[c].authHash = HMAC_SHA256(opts.PSK, sv[c].bufHello \o SentNonce(c))
               /\ cpc[c] # "done" => sv[c].bufHello = cv[c].bufHello

\* C4, the step that verifies reads the digest from the ANSWER on the wire
C4_VerifyStep ==
    \A c \in Conns :
        (sv'[c].verified = "ok" /\ sv[c].verified # "ok")
            => /\ spc[c] = "recvAnswer" /\ Len(c2s[c]) >= PktAnswerSize - HeaderSize
               /\ sv'[c].authHash = SubSeq(c2s[c], 17, 48)
               /\ sv[c].answerHeader.Version = FloVersion1
               /\ sv[c].answerHeader.Type = TypeAnswer

\* C4: with authentication enabled, a session takes a slot, is sent ACK(OK) or
\* enters the data phase only after an ANSWER whose digest is the HMAC under
\* the PSK of the HELLO bytes as received and the nonce of its CHALLENGE.
C4_AuthBeforeAdmission == [](C4_Gate /\ C4_VerifiedDigest) /\ [][C4_VerifyStep]_vars

\* C4's case: a hand-written peer that wrote the right digest is in the data
\* phase of a server with authentication enabled
C4_Witness ==
    /\ AuthEnabled(opts)
    /\ \E c \in Conns : /\ cpc[c] = "raw" /\ spc[c] = "transfer"
                        /\ sv[c].verified = "ok" /\ AcksSent(c, AckOK) # {}

\* the packets the server wrote on connection c after its CHALLENGE
AfterChallenge(c) == SubSeq(s2c[c], 2, Len(s2c[c]))

\* C5, the server: after a digest that does not verify the session takes no
\* slot and has no data phase, returns the authentication error having
\* written one ACK(AuthFailed) and nothing else (or the error of that write
\* having written nothing), and its return closes the connection
C5_Server ==
    \A c \in Conns :
        sv[c].verified = "failed"
            => /\ sv[c].acquired = 0 /\ ~sv[c].deferRelease /\ ~sv[c].refused
               /\ spc[c] \in {"defers", "done"}
               /\ \/ /\ sv[c].err = ErrAuthFailed
                     /\ Len(AfterChallenge(c)) = 1
                     /\ IsAck(AfterChallenge(c)[1], AckAuthFailed)
                  \/ /\ sv[c].err = ErrWrite
                     /\ AfterChallenge(c) = <<>>
               /\ spc[c] = "done" => sClosed[c]

\* C5, the client: a ClientTCP that read ACK(AuthFailed) has returned the
\* authentication error
C5_Client ==
    \A c \in Conns :
        (cv[c].pktAck # Nil /\ cv[c].pktAck.Code = AckAuthFailed)
            => (cpc[c] = "done" /\ cv[c].err = CliErr.AuthFailed /\ cClosed[c])

\* C5, no data phase: no step takes a session whose digest failed, or a
\* client that read ACK(AuthFailed), into the data phase
C5_NoDataPhase ==
    \A c \in Conns :
        /\ (sv[c].verified = "failed" \/ sv'[c].verified = "failed") => spc'[c] # "transfer"
        /\ (cv'[c].pktAck # Nil /\ cv'[c].pktAck.Code = AckAuthFailed) => cpc'[c] # "transfer"

\* C5: a digest that does not verify gets exactly one ACK(AuthFailed), no
\* slot, no data phase and a closed connection; the client that reads the ACK
\* returns the authentication error and starts no data phase.
C5_AuthFailed == [](C5_Server /\ C5_Client) /\ [][C5_NoDataPhase]_vars

\* C5's case: a ClientTCP with another PSK read the ACK(AuthFailed) of a
\* session whose verification failed, and both ends have returned
C5_Witness ==
    \E c \in Conns :
        /\ sv[c].verified = "failed" /\ spc[c] = "done" /\ sv[c].err = ErrAuthFailed
        /\ cv[c].kind = "ClientTCP" /\ cv[c].psk # opts.PSK
        /\ cpc[c] = "done" /\ cv[c].err = CliErr.AuthFailed

\* C6: a ClientTCP that holds the server's non-empty PSK is never refused for
\* its digest: the verification does not fail, no ACK(AuthFailed) is written
\* to it and it does not return the authentication error.
C6_SamePSKVerifies ==
    \A c \in Conns :
        (AuthEnabled(opts) /\ cv[c].kind = "ClientTCP" /\ cv[c].psk = opts.PSK)
            => /\ sv[c].verified # "failed"
               /\ AcksSent(c, AckAuthFailed) = {}
               /\ cv[c].err # CliErr.AuthFailed
               /\ spc[c] \in {"admit", "transfer"} => sv[c].verified = "ok"

\* C6's case: a ClientTCP with the server's PSK answered the CHALLENGE, was
\* verified and admitted, and is in its data phase
C6_Witness ==
    \E c \in Conns :
        /\ AuthEnabled(opts) /\ cv[c].kind = "ClientTCP" /\ cv[c].psk = opts.PSK
        /\ cv[c].answered /\ sv[c].verified = "ok"
        /\ cpc[c] = "transfer" /\ spc[c] = "transfer"

(***************************************************************************)
(* Failures of the first packet.                                           *)
(***************************************************************************)
\* the session wrote nothing, took no slot and has returned (or is returning)
FailedQuietly(c) ==
    /\ s2c[c] = <<>>
    /\ sv[c].acquired = 0 /\ ~sv[c].deferRelease /\ ~sv[c].refused
    /\ spc[c] \in {"defers", "done"}
    /\ spc[c] = "done" => sClosed[c]

\* C7: when the HELLO body fails to read or decode, the session fails with
\* that error, the server writes no packet (no CHALLENGE, no ACK(OK)), takes
\* no slot and starts no data phase.
C7_HelloFailureFatal ==
    \A c \in Conns :
        sv[c].helloErr # NoError
            => /\ s2c[c] = <<>>
               /\ sv[c].acquired = 0
               /\ spc[c] # "transfer"
               /\ spc[c] = "done" => sv[c].err = sv[c].helloErr

\* C8: a first header with a version other than 1 fails the session with
\* UnsupportedVersion, one with version 1 and a type other than HELLO with
\* IncorrectType; either way the server writes no packet, takes no slot and
\* closes the connection.
C8_FirstHeader ==
    \A c \in Conns :
        sv[c].header # Nil
            => /\ sv[c].header.Version # FloVersion1
                    => (sv[c].err = ErrUnsupportedVersion /\ FailedQuietly(c))
               /\ (sv[c].header.Version = FloVersion1 /\ sv[c].header.Type # TypeHello)
                    => (sv[c].err = ErrIncorrectType /\ FailedQuietly(c))

\* C8's case: a first header with version 2 and the type of an ACK: the
\* session has returned UnsupportedVersion and closed
C8_Witness ==
    \E c \in Conns :
        /\ sv[c].header # Nil
        /\ sv[c].header.Version = 2 /\ sv[c].header.Type = TypeAck
        /\ spc[c] = "done" /\ sv[c].err = ErrUnsupportedVersion /\ sClosed[c]

(***************************************************************************)
(* Versions and ACK codes.                                                 *)
(***************************************************************************)
\* C9, the server: a first header or an ANSWER header of another version
\* fails the session
C9_Server ==
    \A c \in Conns :
        /\ (sv[c].header # Nil /\ sv[c].header.Version # FloVersion1)
              => (spc[c] \in {"defers", "done"} /\ sv[c].err = ErrUnsupportedVersion)
        /\ (sv[c].answerHeader # Nil /\ sv[c].answerHeader.Version # FloVersion1)
              => (spc[c] \in {"defers", "done"} /\ sv[c].err = ErrAnswerVersion)

\* C9, the client: once it has read a header of another version, the client
\* is not in a data phase and has not ended one: when Run has returned, it
\* has returned an error
C9_Client ==
    \A c \in Conns :
        (\E i \in 1..Len(cv[c].headers) : cv[c].headers[i].Version # FloVersion1)
            => /\ cpc[c] # "transfer"
               /\ cpc[c] = "done" => cv[c].err # NoError

\* C9: a control packet whose header version is not 1 is accepted by neither
\* endpoint: the session fails and no data phase follows.
C9_VersionRejected == C9_Server /\ C9_Client

\* C10, the gate: the client is in, or has ended, a data phase only with an
\* ACK of code OK read
C10_Gate ==
    \A c \in Conns :
        (cpc[c] = "transfer" \/ (cpc[c] = "done" /\ cv[c].err = NoError))
            => (cv[c].pktAck # Nil /\ cv[c].pktAck.Code = AckOK)

\* C10, the errors: AuthFailed and Busy each return their own error, which
\* no other failure returns; every other code that is not OK returns an error
C10_Errors ==
    /\ Cardinality({NoError, CliErr.AuthFailed, CliErr.Busy, CliErr.AckCode, CliErr.SendHello,
                    CliErr.RecvHeader, CliErr.RecvChallenge, CliErr.SendAnswer,
                    CliErr.ExpectedAck, CliErr.RecvAck, CliErr.UnexpectedType,
                    CliErr.Direction}) = 12
    /\ \A c \in Conns :
        LET code == cv[c].pktAck.Code IN
        /\ cv[c].pktAck # Nil =>
             /\ cpc[c] \in {"transfer", "done"}
             /\ code = AckAuthFailed => (cpc[c] = "done" /\ cv[c].err = CliErr.AuthFailed)
             /\ code = AckBusy => (cpc[c] = "done" /\ cv[c].err = CliErr.Busy)
             /\ code \notin {AckOK, AckAuthFailed, AckBusy}
                    => (cpc[c] = "done" /\ cv[c].err = CliErr.AckCode)
        /\ cv[c].err = CliErr.AuthFailed => (cv[c].pktAck # Nil /\ code = AckAuthFailed)
        /\ cv[c].err = CliErr.Busy => (cv[c].pktAck # Nil /\ code = AckBusy)

\* C10, the step into the data phase is the one that reads an ACK of code OK
C10_Step ==
    \A c \in Conns :
        (cpc'[c] = "transfer" /\ cpc[c] # "transfer")
            => (cpc[c] = "recvAck" /\ cv[c].pktAck = Nil /\ cv'[c].pktAck.Code = AckOK)

\* C10: the client starts the data phase only after reading an ACK of code
\* OK; AuthFailed and Busy each return an error of their own, distinct from
\* each other and from every other failure; any other non-OK code returns an
\* error without a data phase.
C10_AckCodes == [](C10_Gate /\ C10_Errors) /\ [][C10_Step]_vars

\* C10's case: the client answered a CHALLENGE, then read an ACK with a code
\* that no constant names, and returned the error of an unexpected code
C10_Witness ==
    \E c \in Conns :
        /\ cv[c].answered /\ cv[c].pktAck # Nil /\ cv[c].pktAck.Code = AckBusy + 1
        /\ cpc[c] = "done" /\ cv[c].err = CliErr.AckCode

(***************************************************************************)
(* The data phase.                                                         *)
(***************************************************************************)
\* the engine of peer p has decided to stop and waits in w.Flush(), and
\* nothing can end the wait: its receive pump has returned, so the other
\* peer's writes find no reader, and the connection has no deadline
StuckInFlush(p) ==
    /\ eng[p].pc = "halfClose" /\ FlushBlocks(p)
    /\ eng[p].recv = "done"

\* C11: after its stop decision TransferData returns; the engines of the two
\* peers are never both blocked for good, each in its flush while the other
\* has stopped reading
C11_NeverBothBlocked == ~(\A p \in Peers : StuckInFlush(p))

\* the engine of peer p is past its half-close, or past the place of it
PastHalfClose(p) == eng[p].pc \in {"drain", "returned", "closed"}

\* the half-close of an engine: one flush and one CloseWrite when a write
\* side exists and none when it does not, and none before the stop decision
HalfClosedOnce(p) ==
    /\ eng[p].closeWrites <= 1 /\ eng[p].flushes = eng[p].closeWrites
    /\ eng[p].closeWrites = 1 => HasW(p) /\ PastHalfClose(p) /\ wire[p].fin
    /\ PastHalfClose(p) => eng[p].closeWrites = (IF HasW(p) THEN 1 ELSE 0)
    /\ ~HasW(p) => ~wire[p].fin

\* a receive pump whose read finds the stream shut and empty publishes EOF,
\* and the engine that takes EOF from errCh stops there and then: it cancels
\* its context and leaves the select
EOFStopsEngine(p) ==
    /\ (/\ eng[p].recv = "io" /\ eng'[p].recv = "done"
        /\ wire[Other(p)].fin /\ wire[Other(p)].data = 0
        /\ ~wire[p].closed /\ ~wire[Other(p)].rst)
       => eng'[p].errCh = Append(eng[p].errCh, ErrEOF)
    /\ (eng[p].pc = "select" /\ eng'[p].pc # "select" /\ eng'[p].errStop = ErrEOF)
       => /\ eng'[p].ctxErr = IF CtxDone(p) THEN eng[p].ctxErr ELSE ErrCanceled
          /\ eng'[p].pc = IF HasW(p) THEN "halfClose" ELSE "returned"

StopCauses == {ErrDeadlineExceeded, ErrCanceled, ErrEOF, ErrConn, NoError}

\* C13: however the data phase ends, TransferData returns nil, and
\* ServerTCP.handleV1 and ClientTCP.Run do not fail for it; the error that
\* stopped the engine shows in the premature classification only
C13_NoTransferError ==
    \A p \in tcfg.Engines :
        /\ eng[p].pc \in {"returned", "closed"}
             => /\ eng[p].ret = NoError /\ eng[p].errStop \in StopCauses
                /\ eng[p].premature => eng[p].errStop \in {ErrEOF, ErrConn, ErrCanceled}
        /\ eng[p].pc = "closed" => eng[p].callerErr = NoError

\* a session is over whose data phase ended on a failed read or write and
\* was classified premature
C13_Witness ==
    \E p \in tcfg.Engines :
        /\ eng[p].pc = "closed" /\ eng[p].errStop = ErrConn /\ eng[p].premature
        /\ eng[p].callerErr = NoError

\* the time TransferData of peer p was called
StartedAt(p) == eng[p].deadline - Ticks(tcfg.DurationMS + tcfg.WarmupMS)

\* while the gate is shut the counters of a fresh Stats are 0, and the gate
\* was opened no earlier than the warmup after the start
GateState(p) ==
    /\ ~eng[p].counting => eng[p].bytesSent = 0 /\ eng[p].bytesRcvd = 0
    /\ eng[p].counting => /\ eng[p].rep \in {"loop", "done"}
                           /\ eng[p].flippedAt >= StartedAt(p) + Ticks(tcfg.WarmupMS)

\* a step writes the gate only to open it, and only as the reporter at the
\* end of its warmup wait; a counter grows only by the chunk of an I/O of its
\* pump that found the gate open
GateStep(p) ==
    /\ eng[p].counting => eng'[p].counting
    /\ eng'[p].counting # eng[p].counting
         => eng[p].rep = "warmup" /\ eng'[p].rep = "loop" /\ now >= eng[p].repAt
    /\ eng'[p].bytesSent # eng[p].bytesSent
         => /\ eng'[p].bytesSent = eng[p].bytesSent + 1
            /\ eng[p].counting /\ eng[p].send = "io"
            /\ eng'[p].wbuf + wire'[p].data = eng[p].wbuf + wire[p].data + 1
    /\ eng'[p].bytesRcvd # eng[p].bytesRcvd
         => /\ eng'[p].bytesRcvd = eng[p].bytesRcvd + 1
            /\ eng[p].counting /\ eng[p].recv = "io"
            /\ wire'[Other(p)].data = wire[Other(p)].data - 1

\* C14: with the gate shut both counters are 0; a pump counts only the bytes
\* of an I/O after which it found the gate open; only the reporter writes the
\* gate, only to open it, only after the warmup wait, and nothing shuts it
C14_CountingGate ==
    /\ [](\A p \in tcfg.Engines : GateState(p))
    /\ [][\A p \in tcfg.Engines : GateStep(p)]_vars

\* in a test with a warmup the gate is open and the send pump has written
\* two chunks, one before the gate opened, and counted one
C14_Witness ==
    \E p \in tcfg.Engines :
        /\ tcfg.WarmupMS > 0 /\ eng[p].counting
        /\ eng[p].bytesSent = 1 /\ eng[p].wbuf + wire[p].data = 2

\* C15: the reporter publishes no event before the warmup has elapsed: every
\* event follows the opening of the gate, a ticker period after it, and none
\* is earlier than the warmup after the start of the engine
C15_NoEventInWarmup ==
    \A p \in tcfg.Engines : \A i \in DOMAIN eng[p].events :
        /\ eng[p].counting
        /\ eng[p].events[i].at >= eng[p].flippedAt + Ticks(tickerMS)
        /\ eng[p].events[i].at >= StartedAt(p) + Ticks(tcfg.WarmupMS)

\* the reporter of a test with a warmup has published an event
C15_Witness ==
    \E p \in tcfg.Engines : tcfg.WarmupMS > 0 /\ eng[p].events # <<>>

\* the pumps of peer p in a test of direction dir, as the protocol has them:
\* the client sends in an upload, the server in a download, both in a
\* bidirectional test, and the other end receives
PumpsOf(p, dir) ==
    CASE dir = DirectionBidi -> {"send", "recv"}
      [] dir = DirectionUpload -> IF p = "client" THEN {"send"} ELSE {"recv"}
      [] dir = DirectionDownload -> IF p = "client" THEN {"recv"} ELSE {"send"}

\* the pumps the engine of peer p has started
Started(p) == {pump \in {"send", "recv"} : eng[p][pump] # "none"}

\* C16: the peers run mirrored sets of pumps in every direction: one end has a
\* send pump exactly when the other has a receive pump, and the counter of a
\* pump that does not exist stays 0
C16_MirroredPumps ==
    /\ \A p \in Peers :
          /\ HasW(p) <=> HasR(Other(p))
          /\ PumpCount(p) = Cardinality(PumpsOf(p, tcfg.Direction))
    /\ \A p \in tcfg.Engines :
          /\ Started(p) = IF eng[p].pc = "idle" THEN {} ELSE PumpsOf(p, tcfg.Direction)
          /\ "send" \notin PumpsOf(p, tcfg.Direction) => eng[p].bytesSent = 0
          /\ "recv" \notin PumpsOf(p, tcfg.Direction) => eng[p].bytesRcvd = 0

\* the client of an upload has sent and counted a chunk with no receive pump,
\* while chunks were there for it to read
C16_Witness ==
    /\ tcfg.Direction = DirectionUpload /\ "client" \in tcfg.Engines
    /\ eng["client"].send = "io" /\ eng["client"].recv = "none"
    /\ eng["client"].bytesSent > 0 /\ eng["client"].bytesRcvd = 0
    /\ wire["server"].data > 0

\* C17: once the parent context is cancelled the listener gets closed and Run
\* returns nil, and no connection accepted after the cancellation becomes a
\* session; before the cancellation a failed Accept does not end the loop
C17_ListenerShutdown ==
    /\ lsn.loop = "returned" => lsn.ctxDone /\ lsn.closed /\ lsn.ret = NoError
    /\ lsn.watcher = "done" => lsn.ctxDone /\ lsn.closed
    /\ ~lsn.ctxDone => lsn.loop = "accept"
    /\ \A i \in DOMAIN lsn.sessions : ~lsn.sessions[i].afterCancel

(***************************************************************************)
(* The replies of the server.                                              *)
(***************************************************************************)
\* a packet the server has written, decoded as the client decodes it: by
\* its size a CHALLENGE, or else an ACK
Reply(pkt) ==
    IF Len(pkt) = PktChallengeSize
    THEN [kind |-> "challenge", u |-> UnmarshalChallenge(pkt)]
    ELSE [kind |-> "ack", u |-> UnmarshalAck(pkt)]

\* the reply decodes, an ACK with one of the codes the server uses
WellFormed(r) ==
    /\ r.u.err = NoError
    /\ r.kind = "ack" => r.u.val.Code \in {AckOK, AckAuthFailed, AckBusy}

\* the session id field of a packet: bytes 6..21
SessionIDOf(pkt) == Slice(pkt, 6, 22)

\* C18: every CHALLENGE and every ACK a session of the server sends carries
\* the 16 bytes of the session id of the HELLO that session received: the id
\* of every HELLO sent on connection c is NewULID(c), and a session that has
\* not returned still holds the HELLO it decoded and the bytes it read
C18_SessionIDEchoed ==
    \A c \in Conns : \A i \in DOMAIN s2c[c] :
        LET r == Reply(s2c[c][i]) IN
          /\ WellFormed(r)
          /\ r.u.val.SessionID = NewULID(c)
          /\ spc[c] # "done" => /\ sv[c].pktHello # Nil
                                /\ r.u.val.SessionID = sv[c].pktHello.SessionID
                                /\ r.u.val.SessionID = SessionIDOf(sv[c].bufHello)

\* one session has sent its CHALLENGE and its ACK(OK) and is in its data
\* phase; another, with another session id, has sent ACK(Busy)
C18_Witness ==
    \E c, d \in Conns :
        /\ c # d /\ spc[c] = "transfer"
        /\ Len(s2c[c]) = 2 /\ Reply(s2c[c][1]).kind = "challenge" /\ IsAck(s2c[c][2], AckOK)
        /\ SessionIDOf(s2c[c][2]) = sv[c].pktHello.SessionID
        /\ \E i \in DOMAIN s2c[d] :
              /\ IsAck(s2c[d][i], AckBusy)
              /\ SessionIDOf(s2c[d][i]) # SessionIDOf(s2c[c][2])

\* the session of connection c has decoded its HELLO and has not returned
PastHello(c) == spc[c] \in {"recvAnswerHeader", "recvAnswer", "admit", "transfer"}

\* C19: a server with an empty PSK sends no CHALLENGE, and ACKs with auth =
\* none only; a server with a PSK sends ACKs with auth = HMAC only, and its
\* CHALLENGE, with auth_method = HMAC, is the first packet of every session
\* that went on after a HELLO that decoded and of every session that got an ACK
C19_AuthFields ==
    \A c \in Conns :
        /\ \A i \in DOMAIN s2c[c] :
              LET r == Reply(s2c[c][i]) IN
                IF r.kind = "challenge"
                THEN Len(opts.PSK) > 0 /\ r.u.val.AuthMethod = AuthHMAC
                ELSE r.u.val.Auth = IF Len(opts.PSK) > 0 THEN AuthHMAC ELSE AuthNone
        /\ (Len(opts.PSK) > 0 /\ (PastHello(c) \/ s2c[c] # <<>>))
             => s2c[c] # <<>> /\ Reply(s2c[c][1]).kind = "challenge"

\* a server with a PSK has sent a CHALLENGE and then ACK(AuthFailed), both
\* with HMAC
C19_Witness ==
    /\ Len(opts.PSK) > 0
    /\ \E c \in Conns :
          /\ Len(s2c[c]) = 2 /\ IsAck(s2c[c][2], AckAuthFailed)
          /\ UnmarshalChallenge(s2c[c][1]).val.AuthMethod = AuthHMAC
          /\ UnmarshalAck(s2c[c][2]).val.Auth = AuthHMAC

\* the session is over on both ends: both calls of TransferData have returned
Completed == \A p \in Peers : eng[p].pc \in {"returned", "closed"}

\* C20: at the end of an upload without warmup the bytes the client counted
\* as sent and the bytes the server counted as received differ by one chunk
\* at most
C20_UploadCountersAgree ==
    (tcfg.Direction = DirectionUpload /\ tcfg.WarmupMS = 0 /\ Completed)
        => /\ eng["client"].bytesSent - eng["server"].bytesRcvd <= 1
           /\ eng["server"].bytesRcvd - eng["client"].bytesSent <= 1

(***************************************************************************)
(* The packet codec.                                                       *)
(***************************************************************************)
\* a HELLO whose fields are in the ranges of the protocol
ValidHello(p) ==
    /\ p.Transport \in {TransportTCP, TransportUDP, TransportSCTP}
    /\ p.Security \in {SecurityNone, SecurityTLS}
    /\ p.Direction \in {DirectionBidi, DirectionUpload, DirectionDownload}
    /\ p.Flags = 0
    /\ p.ChunkSize >= 10 /\ p.ChunkSize <= 10000000
    /\ p.DurationMS >= 1000
    /\ \E i \in 1..16 : p.NonceClient[i] # 0

\* a packet of the kind with the magic bytes and the type of the kind
ValidPacket(kind, p) ==
    /\ p.Header.Magic = <<70, 76, 79, 0>> /\ p.Header.Type = kind
    /\ kind = TypeHello => ValidHello(p)

\* C21: for each of the five packet kinds, decoding the encoding of a valid
\* packet returns a packet equal to it in every field, and encoding the
\* result of decoding a byte string that decodes returns that byte string
C21_RoundTrip ==
    /\ (codec.ops = <<"Marshal", "Unmarshal">> /\ ValidPacket(codec.kind, codec.in))
         => codec.err = NoError /\ codec.cur = codec.in
    /\ codec.ops = <<"Unmarshal", "Marshal">>
         => codec.err = NoError /\ codec.cur = codec.in

\* a valid HELLO with a warmup of several bytes has been encoded and decoded
\* again
C21_Witness ==
    /\ codec.kind = TypeHello /\ codec.ops = <<"Marshal", "Unmarshal">>
    /\ ValidPacket(TypeHello, codec.in) /\ codec.in.WarmupMS = MaxField
    /\ codec.in.ChunkSize = MaxChunkSize /\ codec.err = NoError

\* the size of a packet of the kind on the wire
WireSize(kind) ==
    CASE kind = TypeHello -> 63
      [] kind = TypeChallenge -> 39
      [] kind = TypeAnswer -> 54
      [] kind = TypeAck -> 24
      [] kind = TypeResult -> 38

\* C22: every encoder returns exactly the fixed size of its kind (HELLO 63,
\* CHALLENGE 39, ANSWER 54, ACK 24, RESULT 38 bytes), and it returns bytes
\* for every packet with the magic bytes; every decoder returns
\* InvalidPacketSize, whatever else is wrong with the input, for every input
\* whose length differs from the fixed size of the kind it decodes
C22_FixedSizes ==
    /\ (codec.ops = <<"Marshal">> /\ codec.err = NoError)
         => Len(codec.cur) = WireSize(codec.kind)
    /\ (codec.ops = <<"Marshal">> /\ codec.in.Header.Magic = <<70, 76, 79, 0>>)
         => codec.err = NoError
    /\ (codec.ops = <<"Unmarshal">> /\ Len(codec.in) # WireSize(codec.kind))
         => codec.err = ErrInvalidPacketSize

\* a byte string one byte longer than a CHALLENGE, and with other magic
\* bytes, was refused for its size
C22_Witness ==
    /\ codec.kind = TypeChallenge /\ codec.ops = <<"Unmarshal">>
    /\ Len(codec.in) = 40 /\ codec.in[1] # 70
    /\ codec.err = ErrInvalidPacketSize

\* the value of four bytes of data from 0-based offset a, least significant
\* first
U32(data, a) ==
    data[a + 1] + 256 * data[a + 2] + 65536 * data[a + 3] + 16777216 * data[a + 4]

\* the checks of a HELLO in their order, each with its error; whether the
\* 8-byte duration_ms is below 1000 is read from its two halves
HelloChecks(data) ==
    << <<Len(data) = 63, ErrInvalidPacketSize>>,
       <<Len(data) = 63 /\ SubSeq(data, 1, 4) = <<70, 76, 79, 0>>, ErrInvalidMagic>>,
       <<Len(data) = 63 /\ data[6] = 1, ErrIncorrectType>>,
       <<Len(data) = 63 /\ data[23] \in {1, 2, 3}, ErrUnsupportedTransport>>,
       <<Len(data) = 63 /\ data[24] \in {0, 1}, ErrUnsupportedSecurity>>,
       <<Len(data) = 63 /\ data[25] \in {0, 1, 2}, ErrUnsupportedDirection>>,
       <<Len(data) = 63 /\ data[26] = 0 /\ data[27] = 0, ErrInvalidFlags>>,
       <<Len(data) = 63 /\ U32(data, 27) >= 10 /\ U32(data, 27) <= 10000000,
         ErrInvalidChunkSize>>,
       <<Len(data) = 63 /\ (U32(data, 35) > 0 \/ U32(data, 31) >= 1000),
         ErrInvalidDuration>>,
       <<Len(data) = 63 /\ \E i \in 48..63 : data[i] # 0, ErrInvalidNonce>> >>

\* the error of the first check that fails, nil when none does
FirstViolation(checks) ==
    IF \A i \in DOMAIN checks : checks[i][1] THEN NoError
    ELSE LET k == CHOOSE i \in DOMAIN checks :
                     /\ ~checks[i][1]
                     /\ \A j \in 1..(i - 1) : checks[j][1]
         IN checks[k][2]

Returns(p) == eng[p].pc # "returned" /\ eng'[p].pc = "returned"

\* C24: a stop caused by the expiry of the deadline, or with no error, is
\* never premature; a stop caused by a clean EOF or by any other error is
\* premature exactly when the time remaining to the deadline exceeds the
\* grace of 250 ms; so a peer that closes early in a download makes the
\* client classify the transfer as ended early
C24_Classification ==
    [][\A p \in tcfg.Engines :
          Returns(p) =>
             LET remainingMS == (eng'[p].deadline - now') * 250
             IN eng'[p].premature =
                   (/\ eng'[p].errStop \notin {NoError, ErrDeadlineExceeded}
                    /\ remainingMS > 250)]_vars

\* the peer closed early in a download and the client has classified its
\* transfer as ended early
C24_Witness ==
    /\ tcfg.Direction = DirectionDownload /\ "client" \in tcfg.Engines
    /\ eng["client"].pc = "returned" /\ eng["client"].errStop = ErrEOF
    /\ wire["server"].closed
    /\ eng["client"].premature

(***************************************************************************)
(* The packets of the client.                                              *)
(***************************************************************************)
\* the run of the client on connection c has failed
RunFailed(c) == cpc[c] = "done" /\ cv[c].err # NoError

\* C25: the client sends HELLO exactly once and first, and reads nothing
\* before; it sends at most one ANSWER, and only after a CHALLENGE was
\* received as the first reply; after the ANSWER it accepts only an ACK (any
\* other type, a second CHALLENGE included, fails the run); a first reply that
\* is neither CHALLENGE nor ACK fails the run; and a run that fails has had no
\* data phase
C25_ClientOrder ==
    \A c \in Conns :
        LET sent == c2s[c]
            got == cv[c].headers
        IN /\ Len(sent) \in {0, 63, 63 + 54}
           /\ Len(sent) >= 63 => sent[6] = TypeHello
           /\ Len(sent) = 0 => cpc[c] = "sendHello" \/ RunFailed(c)
           /\ Len(sent) = 0 => got = <<>>
           /\ Len(sent) > 63 => /\ sent[63 + 6] = TypeAnswer
                                /\ got # <<>> /\ got[1].Type = TypeChallenge
           /\ Len(got) <= 2
           /\ Len(got) = 2 => Len(sent) > 63
           /\ (Len(got) = 2 /\ got[2].Type # TypeAck) => RunFailed(c)
           /\ (got # <<>> /\ got[1].Type \notin {TypeChallenge, TypeAck}) => RunFailed(c)
           /\ cpc[c] = "transfer"
                => /\ got[Len(got)].Type = TypeAck
                   /\ Len(got) = 2 <=> Len(sent) > 63

\* the client has sent HELLO and ANSWER, has got a second CHALLENGE, and its
\* run has failed for it
C25_Witness ==
    \E c \in Conns :
        /\ Len(c2s[c]) = 63 + 54
        /\ Len(cv[c].headers) = 2 /\ cv[c].headers[2].Type = TypeChallenge
        /\ cpc[c] = "done" /\ cv[c].err = CliErr.ExpectedAck

(***************************************************************************)
(* The deadlines of the handshake.                                         *)
(***************************************************************************)
\* a read of the session of connection c has run into its deadline: the peer
\* had stopped sending
Stalled(c) == sv[c].helloErr = ErrRead \/ sv[c].err = ErrRead

\* C26: every read of the handshake has a deadline, so a peer that stops
\* sending at any point of the handshake makes the session end with an error,
\* and a session that stalls in the handshake never holds an admission slot
C26_StalledSessionEnds ==
    \A c \in Conns :
        Stalled(c) => /\ spc[c] \in {"defers", "done"}
                      /\ ~sv[c].panicking
                      /\ sv[c].acquired = 0 /\ ~sv[c].deferRelease

(***************************************************************************)
(* The reporter after the end of the context.                              *)
(***************************************************************************)
\* C27: once the child context of the engine has ended, the reporter emits
\* no further rate event, and the counting gate is not flipped to true
\* afterwards, also when the context ends during the warmup sleep
C27_ReporterStops ==
    [][\A p \in tcfg.Engines :
          CtxDone(p) => /\ eng'[p].events = eng[p].events
                        /\ eng'[p].counting = eng[p].counting]_vars

(***************************************************************************)
(* The total time of the data phase.                                       *)
(***************************************************************************)
\* warmup_ms + duration_ms in nanoseconds, on 12 bytes, where nothing wraps
ExactTotalTime ==
    AddBytes(MulBytes(tcfg.DurationMS \o Zeros(4), 1000000, 0),
             MulBytes(tcfg.WarmupMS \o Zeros(4), 1000000, 0), 0)

\* the int64 of 8 bytes as a number of 12 bytes
Int64On12(x) == x \o (IF x[8] >= 128 THEN <<255, 255, 255, 255>> ELSE Zeros(4))

\* C28: for every HELLO the decoder accepts (duration_ms >= 1000, any 64-bit
\* warmup_ms), the total time given to the engine equals warmup_ms +
\* duration_ms milliseconds: the conversion of the fields to durations and
\* their sum do not wrap to a smaller or negative value
C28_TotalTime ==
    tcfg.pc = "started" => Int64On12(tcfg.totalTime) = ExactTotalTime

(***************************************************************************)
(* The pumps at the return of TransferData.                                *)
(***************************************************************************)
\* C29: when TransferData has returned, every pump it started has stopped
\* (so that no pump does a further I/O or updates a counter afterwards)
C29_PumpsStopped ==
    \A p \in tcfg.Engines :
        eng[p].pc \in {"returned", "closed"}
            => /\ eng[p].send \in {"none", "done"}
               /\ eng[p].recv \in {"none", "done"}


(***************************************************************************)
(* The flush at the exit of TransferData and the writes of the send pump.  *)
(***************************************************************************)
\* the engine of peer p runs w.Flush() in this step
Flushes(p) == eng'[p].flushes = eng[p].flushes + 1

\* C30: the flush of the buffered writer at the exit of TransferData never
\* runs while the send pump is still at a w.Write on the same writer: the send
\* pump has finished its last write before the engine flushes and half-closes
C30_FlushAfterLastWrite ==
    [][\A p \in tcfg.Engines :
          Flushes(p) => eng[p].send \in {"none", "done"}]_vars

(***************************************************************************)
(* The end of the goroutines of TransferData.                              *)
(***************************************************************************)
\* TransferData of peer p has returned, its caller has closed the connection,
\* and the pumps and the reporter have returned: nothing is left that sends
\* on statsCh
Ended(p) ==
    /\ eng[p].pc = "closed"
    /\ eng[p].send \in {"none", "done"} /\ eng[p].recv \in {"none", "done"}
    /\ eng[p].rep = "done"

\* C31: every goroutine TransferData starts (the pumps, the reporter and the
\* logging loop) terminates after the transfer has ended; once the others
\* have ended, the logging loop is not left blocked on its channel
C31_AllTerminate ==
    \A p \in tcfg.Engines : Ended(p) => eng[p].logger # "recv"

(***************************************************************************)
(* The sessions of one server are independent.                             *)
(***************************************************************************)
\* C32: a failure inside one server session ends only that session: every
\* connection that waits to be accepted and every other session, in its
\* handshake or in its data phase, still has a server that runs
C32_SessionIsolation ==
    \A d \in Conns : spc[d] # "done" => ~crashed

(***************************************************************************)
(* The control packets of a server session.                                *)
(***************************************************************************)
\* the types of the packets the server has written on connection c, in the
\* order of writing: the type is the sixth byte of a packet
SentTypes(c) == [i \in DOMAIN s2c[c] |-> s2c[c][i][6]]

\* the code of an ACK: its last byte, data[23]
AckCodeOf(pkt) == pkt[24]

\* what the server has written on every connection is in the order CHALLENGE,
\* ACK, the ACK that follows a CHALLENGE follows the reading of the ANSWER,
\* and a session in its data phase has written ACK(OK) last
ControlSequence ==
    \A c \in Conns :
        LET types == SentTypes(c) IN
          /\ types \in {<<>>, <<TypeChallenge>>, <<TypeAck>>, <<TypeChallenge, TypeAck>>}
          /\ types = <<TypeChallenge, TypeAck>> => sv[c].verified \in {"ok", "failed"}
          /\ spc[c] = "transfer"
                => /\ types # <<>> /\ types[Len(types)] = TypeAck
                   /\ AckCodeOf(s2c[c][Len(s2c[c])]) = AckOK

\* C33: at the start and after every step the control packets a server session
\* has sent are in the order CHALLENGE, ACK: at most one CHALLENGE and at most
\* one ACK, no CHALLENGE after an ACK, no ACK after a CHALLENGE before the
\* ANSWER was read, and the data phase only after an ACK with code OK
C33_ControlSequence == ControlSequence /\ [][ControlSequence']_vars

\* C33's case: a session in its data phase after CHALLENGE and ACK(OK),
\* while another session got ACK(Busy) after its CHALLENGE
C33_Witness ==
    \E c, d \in Conns :
        /\ spc[c] = "transfer" /\ SentTypes(c) = <<TypeChallenge, TypeAck>>
        /\ SentTypes(d) = <<TypeChallenge, TypeAck>> /\ AckCodeOf(s2c[d][2]) = AckBusy

(***************************************************************************)
(* The events of the reporter.                                             *)
(***************************************************************************)
RECURSIVE SumSent(_)
SumSent(events) ==
    IF events = <<>> THEN 0 ELSE Head(events).BytesSent + SumSent(Tail(events))

RECURSIVE SumRcvd(_)
SumRcvd(events) ==
    IF events = <<>> THEN 0 ELSE Head(events).BytesRcvd + SumRcvd(Tail(events))

\* C34: no diff_sent and no diff_rcvd of the reporter is the result of an
\* underflow (each counter is at least what the reporter read last), and the
\* diffs of the events emitted so far add up to the counters read at the last
\* tick, which the counters have reached
C34_ReporterDiffs ==
    \A p \in tcfg.Engines :
        LET e == eng[p] IN
          /\ \A i \in DOMAIN e.events :
                e.events[i].BytesSent >= 0 /\ e.events[i].BytesRcvd >= 0
          /\ e.lastBytesSent <= e.bytesSent /\ e.lastBytesRcvd <= e.bytesRcvd
          /\ SumSent(e.events) = e.lastBytesSent
          /\ SumRcvd(e.events) = e.lastBytesRcvd

\* C34's case: two ticks, each with a diff that is not zero, and a counter
\* that has grown since the last tick
C34_Witness ==
    \E p \in tcfg.Engines :
        LET e == eng[p] IN
          /\ Len(e.events) = 2
          /\ e.events[1].BytesRcvd > 0 /\ e.events[2].BytesRcvd > 0
====
